---- MODULE Spec2Model ----
(***************************************************************************)
(* A model of Partial.js (src/src/partial.htmx.js): the request core with  *)
(* its timeout and retry loop, the debounce gate of a trigger listener,    *)
(* the response reconciler with its swap primitive and out-of-band         *)
(* fragments, the infinite-scroll lifecycle and history navigation.        *)
(***************************************************************************)
EXTENDS Integers, Sequences, FiniteSets, TLC

\* ------------------------------------------------------------------ bounds

\* Most callbacks addHook registers, and most runHooks calls made in a row.
MaxHooks == 2

MaxHookRuns == 2

\* Longest chain of an element and its ancestors in the attribute reads.
MaxDepth == 3

\* Largest retry count a request is given (x-retry / maxRetries).
MaxRetries == 2

\* Trigger events dispatched on the action element.
MaxEvents == 3

\* Last instant of the clock.
MaxTime == 4

\* Largest debounce delay configured (x-debounce, options.debounceTime).
MaxWait == 2

\* Interactions (trigger, scroll load, navigation replay) started.
MaxInteractions == 2

\* popstate events delivered.
MaxPops == 2

\* performSwap calls made by a collaborator.
MaxDirectSwaps == 2

\* ---------------------------------------------------------------- variables

VARIABLES
    \* performRequestCore (src/src/partial.htmx.js:982-1027)
    pc,          \* position of the running call
    maxRetries,  \* requestParams.maxRetries
    timeout,     \* requestParams.timeout (0: none, falsy)
    attempts,    \* let attempts
    armed,       \* attempts whose setTimeout is neither cleared nor fired
    aborted,     \* controller.signal.aborted
    netCalls,    \* number of fetch(url, options) calls made
    hist,        \* how each attempt ended, in order
    error,       \* the error thrown out of performRequestCore
    \* the trigger listener of one action element (setupElement, debounce)
    now,          \* the clock
    debounceTime, \* this.debounceTime (options.debounceTime || 0)
    xDebounce,    \* the x-debounce attribute found by inheritance
    evTimes,      \* the instant of each trigger event dispatched so far
    debTimeout,   \* let timeout: the id of the timer set last (0: undefined)
    pending,      \* timers set and neither cleared nor run
    calls,        \* the handleAction(event, element) invocations made
    \* the live document and the reconciler
    dom,          \* node -> its attributes, engine markers and children
    lastResponse, \* this.lastResponse: the response stored last
    inflight,     \* interactions awaiting their response or its reconciliation
    recon,        \* the processResponse run last: what it was given and did
    loads,        \* load requests issued per scroll container
    reloads,      \* window.location.reload() calls
    requests,     \* performRequest calls entered
    hookLog,      \* the hook phases run, in order
    popped,       \* the history states handlePopState was called with
    lastSwap,     \* the performSwap call a collaborator made last
    \* the reads of an inheritable attribute
    inhDoc,       \* an element with its chain of ancestors
    inhAttr,      \* the attribute the chain declares
    inhRead,      \* the read made last: by which element, with what result
    \* the hook registry, runHooks and handleError
    hooks,        \* this.hooks: phase -> the callbacks registered, in order
    onError,      \* this.onError is a function
    hrun,         \* the runHooks call under way
    hookTrace,    \* callbacks started and ended, in order
    handled,      \* the errors delivered, with the handler that got each
    notices,      \* error notices written into a target element
    hookRuns,      \* how each runHooks call ended
    \* one execution of handleAction (543-672) and the requests it performs
    act,         \* the element's configuration and the position of the execution
    middleware,  \* this.middleware: the registered stages, in order
    pushed,      \* the entries given to history.pushState, in order
    shown,       \* the indicator's display and the loading class of the target
    \* the server-push elements (setupSSEElement 255-295, cleanupSSEElement)
    sse,         \* per element: in the document, __xSSEInitialized, its
                 \* EventSources, its observers; this.sseConnections; the
                 \* mutation records not yet delivered
    \* the headers of one request (getHeaders 763-796, prepareRequestHeaders)
    hdr          \* this.csrfToken, the element's x-headers, the descriptor's
                 \* headers, the headers given to fetch

coreVars == <<pc, maxRetries, timeout, attempts, armed, aborted, netCalls, hist, error>>

debVars == <<now, debounceTime, xDebounce, evTimes, debTimeout, pending, calls>>

domVars == <<dom, lastResponse, inflight, recon, loads, reloads, requests, hookLog, popped, lastSwap>>

inhVars == <<inhDoc, inhAttr, inhRead>>

hookVars == <<hooks, onError, hrun, hookTrace, handled, notices, hookRuns>>

actVars == <<act, middleware, pushed, shown>>

sseVars == <<sse>>

hdrVars == <<hdr>>

extVars == <<inhVars, hookVars, actVars, sseVars, hdrVars>>

vars == <<coreVars, debVars, domVars, extVars>>

OnlyCore == UNCHANGED <<debVars, domVars, extVars>>

OnlyDebounce == UNCHANGED <<coreVars, domVars, extVars>>

OnlyDom == UNCHANGED <<coreVars, debVars, extVars>>

\* ------------------------------------------- values and the idle subsystems

\* An attribute that is not set, a node that is not there.
None == "none"

NoNode == -1

\* parseInt(xDebounce, 10) of an attribute value: an integer or NaN.
NoAttr == [kind |-> "null", val |-> 0]

NotANumber == [kind |-> "nan", val |-> 0]

IntAttr(n) == [kind |-> "int", val |-> n]

\* A response: its body and the headers processResponse reads.
Response(text, xTarget, xSwap, xInfiniteScroll) ==
    [text |-> text, xTarget |-> xTarget, xSwap |-> xSwap, xInfiniteScroll |-> xInfiniteScroll]

NoResponse == Response(<<>>, None, None, None)

NoRecon ==
    [no |-> 0, text |-> <<>>, targetElement |-> NoNode, element |-> NoNode,
     response |-> NoResponse, before |-> <<>>, threw |-> FALSE, swaps |-> <<>>,
     oobLog |-> <<>>, errors |-> <<>>]

NoSwap == [no |-> 0, before |-> <<>>, target |-> NoNode, option |-> None, threw |-> FALSE]

\* The document and the reconciler outside their own specifications.
DomIdle ==
    /\ dom = <<>>
    /\ lastResponse = NoResponse
    /\ inflight = {}
    /\ recon = NoRecon
    /\ loads = <<>>
    /\ reloads = 0
    /\ requests = 0
    /\ hookLog = <<>>
    /\ popped = <<>>
    /\ lastSwap = NoSwap

\* The state of the listener before a trigger arrives, outside its own
\* specification.
DebIdle ==
    /\ now = 0
    /\ debounceTime = 0
    /\ xDebounce = NoAttr
    /\ evTimes = <<>>
    /\ debTimeout = 0
    /\ pending = {}
    /\ calls = <<>>

\* No attribute read under way.
NoRead == [el |-> NoNode, value |-> None]

InhIdle == inhDoc = <<>> /\ inhAttr = None /\ inhRead = NoRead

\* The phases of the registry the constructor creates.
HookPhases == {"onAction", "beforeRequest", "afterResponse", "afterSettle", "beforeSettle"}

\* No runHooks call under way.
NoRun ==
    [active |-> FALSE, phase |-> None, idx |-> 0, running |-> {}, target |-> FALSE,
     rejected |-> FALSE]

HookIdle ==
    /\ hooks = [ph \in HookPhases |-> <<>>]
    /\ onError = FALSE
    /\ hrun = NoRun
    /\ hookTrace = <<>>
    /\ handled = <<>>
    /\ notices = 0
    /\ hookRuns = <<>>

\* The subsystems added to the three above, outside their own specifications.
\* No execution of handleAction: no element configured, nothing registered.
NoAction ==
    [pc |-> "none", cfg |-> None, pushState |-> None, swap |-> None, retry |-> NotANumber,
     onErrorAttr |-> FALSE, indicator |-> FALSE, loadingClass |-> FALSE,
     depth |-> 0, frames |-> <<>>, shortAt |-> 0, result |-> None,
     slot0 |-> "empty", slot |-> "empty", coreCalls |-> 0, swapped |-> FALSE,
     failure |-> None]

Hidden == [indicator |-> FALSE, loadingClass |-> FALSE]

ActIdle ==
    /\ act = NoAction
    /\ middleware = <<>>
    /\ pushed = <<>>
    /\ shown = Hidden

\* The server-push elements of the page.
SseElements == {"x", "y"}

\* No server-push element set up, all of them in the document.
SseIdle ==
    sse = [inDocument  |-> [e \in SseElements |-> TRUE],
           initialized |-> [e \in SseElements |-> FALSE],
           sources     |-> [e \in SseElements |-> <<>>],
           observers   |-> [e \in SseElements |-> 0],
           connections |-> {},
           mutated     |-> FALSE]

\* An object without properties.
NoHeaders == [n \in {} |-> ""]

\* No request whose headers are followed.
HdrIdle ==
    hdr = [stage |-> "idle", csrfToken |-> [kind |-> "null", value |-> ""],
           xHeaders |-> NoHeaders, descriptor |-> NoHeaders, changes |-> 0,
           sent |-> NoHeaders]

ExtIdle == InhIdle /\ HookIdle /\ ActIdle /\ SseIdle /\ HdrIdle

\* The request core outside its own specification.
CoreIdle ==
    /\ pc = "loop" /\ maxRetries = 0 /\ timeout = 0 /\ attempts = 0 /\ armed = {}
    /\ aborted = FALSE /\ netCalls = 0 /\ hist = <<>> /\ error = "none"

\* ------------------------------------------------------------ the document

\* The document body; every other node is numbered from 1 as it is created.
Body == 0

\* An element as markup: its attributes and its children, as written in a
\* response or produced by outerHTML.
\*   id     the id attribute
\*   kind   "action" (x-get), "scroll" (x-get with x-infinite-scroll),
\*          "sse" (x-sse) or "plain"
\*   target x-target, swap x-swap, oob x-swap-oob ("" when set without a value)
Elem(id, kind, target, swap, oob, kids) ==
    [id |-> id, kind |-> kind, target |-> target, swap |-> swap, oob |-> oob,
     kids |-> kids]

\* A node of the document: the attributes of its element, its children, and
\* the markers the engine attaches to it.
\*   inited     __xRequestHandlerInitialized
\*   listeners  trigger listeners attached by setupElement
\*   sseInit    __xSSEInitialized
\*   sentinel   __sentinelElement
\*   stopped    __infiniteScrollStopped
\*   observer   __infiniteScrollObserver (0: none)
\*   observing  the observers that observe the sentinel
\*   nObs       observers created for it so far
NewNode(e, kids) ==
    [id |-> e.id, kind |-> e.kind, target |-> e.target, swap |-> e.swap,
     oob |-> e.oob, kids |-> kids,
     inited |-> FALSE, listeners |-> 0, sseInit |-> FALSE,
     sentinel |-> NoNode, stopped |-> FALSE, observer |-> 0, observing |-> {},
     nObs |-> 0]

Plain(id, kids) == Elem(id, "plain", None, None, None, kids)

\* F applied to the value of v, v being evaluated once.
With(v, F(_)) == CHOOSE y \in {F(x) : x \in {v}} : TRUE

NextId(d) == Cardinality(DOMAIN d)

\* The parent of a node: parentNode / parentElement.
Parent(d, n) ==
    IF \E p \in DOMAIN d : \E i \in DOMAIN d[p].kids : d[p].kids[i] = n
    THEN CHOOSE p \in DOMAIN d : \E i \in DOMAIN d[p].kids : d[p].kids[i] = n
    ELSE NoNode

RECURSIVE Preorder(_, _)
\* The nodes of the forest `roots` in document order.
Preorder(d, roots) ==
    IF roots = <<>>
    THEN <<>>
    ELSE <<Head(roots)>> \o Preorder(d, d[Head(roots)].kids) \o Preorder(d, Tail(roots))

\* The descendants of n in document order: what n.querySelectorAll ranges over.
Descendants(d, n) == Preorder(d, d[n].kids)

Range(f) == {f[i] : i \in DOMAIN f}

\* document.body.contains(n), for n another node than the body.
InDocument(d, n) == n \in Range(Descendants(d, Body))

\* document.getElementById(id): the first element in document order.
GetElementById(d, id) ==
    IF id = None
    THEN NoNode
    ELSE With(SelectSeq(Descendants(d, Body), LAMBDA n : d[n].id = id),
              LAMBDA hits : IF hits = <<>> THEN NoNode ELSE Head(hits))

RECURSIVE AddForest(_, _)
\* Parsing markup creates one new node per element, detached from the
\* document: [dom, roots], roots being the top-level nodes in order.
AddForest(d, forest) ==
    IF forest = <<>>
    THEN [dom |-> d, roots |-> <<>>]
    ELSE With(NextId(d), LAMBDA n :
         With(AddForest(d @@ (n :> NewNode(Head(forest), <<>>)), Head(forest).kids), LAMBDA sub :
         With(AddForest([sub.dom EXCEPT ![n].kids = sub.roots], Tail(forest)), LAMBDA rest :
              [dom |-> rest.dom, roots |-> <<n>> \o rest.roots])))

\* seq with the element at position i replaced by the elements of mid.
Splice(seq, i, mid) == SubSeq(seq, 1, i - 1) \o mid \o SubSeq(seq, i + 1, Len(seq))

IndexOf(seq, x) == CHOOSE i \in DOMAIN seq : seq[i] = x

\* --------------------------------------------- discovery and element setup

\* window, the target the 'root' token of X-Target selects.
Window == -2

\* setupInfiniteScroll(parentElement): nothing once stopped; else find or
\* create the sentinel after the container and observe it with a new observer.
\* A slip beside setupInfiniteScroll: the stopped flag is not consulted.
setupInfiniteScrollIgnoresStop(d, c) ==
    With(IF d[c].sentinel # NoNode
         THEN d
         ELSE With(NextId(d), LAMBDA s :
              With(Parent(d, c), LAMBDA p :
                   [(d @@ (s :> NewNode(Elem(None, "sentinel", None, None, None, <<>>), <<>>)))
                       EXCEPT ![p].kids = Splice(@, IndexOf(@, c), <<c, s>>),
                              ![c].sentinel = s])),
         LAMBDA d1 :
             [d1 EXCEPT ![c].nObs = @ + 1,
                        ![c].observing = @ \cup {d[c].nObs + 1},
                        ![c].observer = d[c].nObs + 1])

\* A slip beside it: a container that has its sentinel is not observed again.
setupInfiniteScrollOnce(d, c) ==
    IF d[c].stopped \/ d[c].sentinel # NoNode
    THEN d
    ELSE With(NextId(d), LAMBDA s :
         With(Parent(d, c), LAMBDA p :
              [(d @@ (s :> NewNode(Elem(None, "sentinel", None, None, None, <<>>), <<>>)))
                  EXCEPT ![p].kids = Splice(@, IndexOf(@, c), <<c, s>>),
                         ![c].sentinel = s,
                         ![c].nObs = @ + 1,
                         ![c].observing = @ \cup {d[c].nObs + 1},
                         ![c].observer = d[c].nObs + 1]))

setupInfiniteScroll(d, c) ==
    IF d[c].stopped
    THEN d
    ELSE With(IF d[c].sentinel # NoNode
              THEN d
              ELSE With(NextId(d), LAMBDA s :
                   With(Parent(d, c), LAMBDA p :
                        [(d @@ (s :> NewNode(Elem(None, "sentinel", None, None, None, <<>>), <<>>)))
                            EXCEPT ![p].kids = Splice(@, IndexOf(@, c), <<c, s>>),
                                   ![c].sentinel = s])),
              LAMBDA d1 :
                  [d1 EXCEPT ![c].nObs = @ + 1,
                             ![c].observing = @ \cup {d[c].nObs + 1},
                             ![c].observer = d[c].nObs + 1])

\* A slip in setupElement: the initialized flag is not consulted.
setupElementAgain(d, n) ==
    IF d[n].kind = "scroll"
    THEN [setupInfiniteScroll(d, n) EXCEPT ![n].inited = TRUE]
    ELSE [d EXCEPT ![n].listeners = @ + 1, ![n].inited = TRUE]

\* setupElement(element): once per element; a scroll container is armed, any
\* other action element gets its trigger listener.
setupElement(d, n) ==
    IF d[n].inited
    THEN d
    ELSE IF d[n].kind = "scroll"
         THEN [setupInfiniteScroll(d, n) EXCEPT ![n].inited = TRUE]
         ELSE [d EXCEPT ![n].listeners = @ + 1, ![n].inited = TRUE]

\* setupSSEElement(element): once per element, opens its connection.
setupSSEElement(d, n) ==
    IF d[n].sseInit THEN d ELSE [d EXCEPT ![n].sseInit = TRUE]

RECURSIVE SetupAll(_, _)
SetupAll(d, elements) ==
    IF elements = <<>>
    THEN d
    ELSE With(IF d[Head(elements)].kind = "sse"
              THEN setupSSEElement(d, Head(elements))
              ELSE setupElement(d, Head(elements)),
              LAMBDA d1 : SetupAll(d1, Tail(elements)))

\* scanForElements(container): every descendant carrying an action attribute
\* or x-sse, in document order.
scanForElements(d, container) ==
    SetupAll(d, SelectSeq(Descendants(d, container),
                          LAMBDA n : d[n].kind \in {"action", "scroll", "sse"}))

\* stopInfiniteScroll(parentElement): the sentinel is removed, the stopped
\* flag set, the stored observer disconnected.
stopInfiniteScroll(d, c) ==
    With(IF d[c].sentinel = NoNode THEN NoNode ELSE Parent(d, d[c].sentinel), LAMBDA p :
         [(IF p = NoNode THEN d
           ELSE [d EXCEPT ![p].kids = Splice(@, IndexOf(@, d[c].sentinel), <<>>)])
            EXCEPT ![c].sentinel = NoNode,
                   ![c].stopped = TRUE,
                   ![c].observing = @ \ {d[c].observer},
                   ![c].observer = 0])

\* ------------------------------------------------------------- performSwap

SwapOptions == {"outerHTML", "innerHTML", "beforebegin", "afterbegin", "beforeend", "afterend"}

\* template.innerHTML = newContent: the fragment is a new node holding the
\* parsed elements.
ParseFragment(d, content) ==
    With(NextId(d), LAMBDA f :
    With(AddForest(d @@ (f :> NewNode(Elem(None, "fragment", None, None, None, <<>>), <<>>)),
                   content), LAMBDA sub :
         [dom |-> [sub.dom EXCEPT ![f].kids = sub.roots], fragment |-> f]))

\* The switch of performSwap on an element target, the fragment f being
\* parsed and scanned: [dom, threw].
SwapCasesExchanged(d, target, f, content, swapOption) ==
    With(Parent(d, target), LAMBDA p :
       IF swapOption = "innerHTML"
       THEN [dom |-> IF p = NoNode THEN d
                     ELSE [d EXCEPT ![p].kids = Splice(@, IndexOf(@, target), d[f].kids),
                                    ![f].kids = <<>>],
             threw |-> FALSE]
       ELSE [dom |-> [d EXCEPT ![target].kids = d[f].kids, ![f].kids = <<>>],
             threw |-> FALSE])

SwapCases(d, target, f, content, swapOption) ==
    With(Parent(d, target), LAMBDA p :
       CASE swapOption = "outerHTML" ->
              \* target.replaceWith(fragment): nothing happens without a parent
              [dom |-> IF p = NoNode THEN d
                       ELSE [d EXCEPT ![p].kids = Splice(@, IndexOf(@, target), d[f].kids),
                                      ![f].kids = <<>>],
               threw |-> FALSE]
         [] swapOption = "innerHTML" ->
              [dom |-> [d EXCEPT ![target].kids = d[f].kids, ![f].kids = <<>>],
               threw |-> FALSE]
         [] swapOption \in {"beforebegin", "afterend"} ->
              \* insertAdjacentHTML parses newContent again, beside the target
              IF p = NoNode
              THEN [dom |-> d, threw |-> TRUE]
              ELSE With(AddForest(d, content), LAMBDA again :
                        [dom |-> [again.dom EXCEPT ![p].kids =
                                    Splice(@, IndexOf(@, target),
                                           IF swapOption = "beforebegin"
                                           THEN again.roots \o <<target>>
                                           ELSE <<target>> \o again.roots)],
                         threw |-> FALSE])
         [] swapOption \in {"afterbegin", "beforeend"} ->
              With(AddForest(d, content), LAMBDA again :
                   [dom |-> [again.dom EXCEPT ![target].kids =
                               IF swapOption = "afterbegin"
                               THEN again.roots \o @ ELSE @ \o again.roots],
                    threw |-> FALSE])
         [] OTHER ->
              \* invalid option: targetElement.innerHTML = newContent
              With(AddForest(d, content), LAMBDA again :
                   [dom |-> [again.dom EXCEPT ![target].kids = again.roots],
                    threw |-> FALSE]))

\* performSwap(targetElement, newContent, swapOption): parse into a template,
\* pre-initialize the fragment, then the switch. window has none of the
\* methods the switch calls: only the assignment of the invalid-option branch
\* does not throw.
performSwap(d, target, content, swapOption) ==
    With(ParseFragment(d, content), LAMBDA parsed :
    With(scanForElements(parsed.dom, parsed.fragment), LAMBDA scanned :
         IF target = Window
         THEN [dom |-> scanned, threw |-> swapOption \in SwapOptions]
         ELSE SwapCases(scanned, target, parsed.fragment, content, swapOption)))

\* --------------------------------------------------------- processResponse

RECURSIVE StripOob(_)
\* The parsed response once every [x-swap-oob] element is removed from its
\* parent: what doc.body.innerHTML serializes.
StripOob(forest) ==
    IF forest = <<>>
    THEN <<>>
    ELSE LET e == Head(forest)
         IN (IF e.oob # None THEN <<>> ELSE <<[e EXCEPT !.kids = StripOob(e.kids)]>>)
            \o StripOob(Tail(forest))

\* A slip beside it: only the top-level marked elements are taken out, and
\* they keep what they contain.
OobElementsTopLevel(forest) == SelectSeq(forest, LAMBDA e : e.oob # None)

RECURSIVE OobElements(_)
\* doc.querySelectorAll('[x-swap-oob]') in document order, each element as it
\* is after the removals: without the marked elements it contained.
OobElements(forest) ==
    IF forest = <<>>
    THEN <<>>
    ELSE LET e == Head(forest)
         IN (IF e.oob # None THEN <<[e EXCEPT !.kids = StripOob(e.kids)]>> ELSE <<>>)
            \o OobElements(e.kids)
            \o OobElements(Tail(forest))

RECURSIVE getAttributeWithInheritance(_, _, _)
\* getAttributeWithInheritance(element, attributeName) for an inheritable
\* attribute (field a of the node): the element's own value, else the nearest
\* ancestor's, else null.
getAttributeWithInheritance(d, n, a) ==
    IF n = NoNode
    THEN None
    ELSE IF d[n][a] # None
         THEN d[n][a]
         ELSE getAttributeWithInheritance(d, Parent(d, n), a)

\* this.defaultSwapOption (options.defaultSwapOption || 'innerHTML').
defaultSwapOption == "innerHTML"

\* The target of the primary swap: the node the X-Target header resolves to
\* (querySelector, else getElementById), window for the token 'root', else
\* the target the caller passed.
FinalTargetIgnoresHeader(d, backendTargetSelector, targetElement) == targetElement

FinalTarget(d, backendTargetSelector, targetElement) ==
    IF backendTargetSelector = None
    THEN targetElement
    ELSE With(GetElementById(d, backendTargetSelector), LAMBDA backendTargetElement :
              IF backendTargetElement # NoNode
              THEN backendTargetElement
              ELSE IF backendTargetSelector = "root"
                   THEN Window
                   ELSE targetElement)

\* The option of the primary swap: X-Swap when the response has it, else the
\* x-swap attribute found from the element upwards, else the default.
\* console.error at the else branch of the target resolution: the header names
\* no node and is not 'root'.
TargetHeaderUnresolved(d, backendTargetSelector) ==
    /\ backendTargetSelector # None
    /\ GetElementById(d, backendTargetSelector) = NoNode
    /\ backendTargetSelector # "root"

SwapOptionHeaderLast(d, backendSwapOption, element) ==
    With(getAttributeWithInheritance(d, element, "swap"), LAMBDA own :
         IF own # None
         THEN own
         ELSE IF backendSwapOption # None THEN backendSwapOption ELSE defaultSwapOption)

SwapOption(d, backendSwapOption, element) ==
    With(getAttributeWithInheritance(d, element, "swap"), LAMBDA own :
         IF backendSwapOption # None
         THEN backendSwapOption
         ELSE IF own # None THEN own ELSE defaultSwapOption)

RECURSIVE handleOobSwapping(_, _)
\* handleOobSwapping(oobElements) from the state r = [dom, swaps, oobLog]:
\* a fragment without id or without a node of its id is reported and
\* skipped, any other is swapped with its own option (or the default) and the
\* node of its id is scanned again.
\* A slip beside it: the first fragment that cannot be placed ends the loop.
handleOobSwappingStopsAtMissing(r, oobElements) ==
    IF oobElements = <<>>
    THEN r
    ELSE With(Head(oobElements), LAMBDA e :
         With(GetElementById(r.dom, e.id), LAMBDA existing :
           IF existing = NoNode
           THEN [r EXCEPT !.oobLog = Append(@, [id |-> e.id, existing |-> NoNode]),
                          !.errors = Append(@, "oob")]
           ELSE With(IF e.oob # "" THEN e.oob ELSE defaultSwapOption, LAMBDA option :
                With(performSwap(r.dom, existing, <<e>>, option), LAMBDA swapped :
                With(GetElementById(swapped.dom, e.id), LAMBDA again :
                With([dom    |-> IF again = NoNode \/ swapped.threw THEN swapped.dom
                                 ELSE scanForElements(swapped.dom, again),
                      threw  |-> swapped.threw,
                      swaps  |-> Append(r.swaps, [target |-> existing, content |-> <<e>>,
                                                 option |-> option, primary |-> FALSE]),
                      oobLog |-> Append(r.oobLog, [id |-> e.id, existing |-> existing]),
                      errors |-> r.errors],
                     LAMBDA r1 :
                         IF r1.threw THEN r1
                         ELSE handleOobSwapping(r1, Tail(oobElements))))))))

handleOobSwapping(r, oobElements) ==
    IF oobElements = <<>>
    THEN r
    ELSE With(Head(oobElements), LAMBDA e :
         With(GetElementById(r.dom, e.id), LAMBDA existing :
           IF existing = NoNode
           THEN handleOobSwapping(
                    [r EXCEPT !.oobLog = Append(@, [id |-> e.id, existing |-> NoNode]),
                              !.errors = Append(@, "oob")],
                    Tail(oobElements))
           ELSE With(IF e.oob # "" THEN e.oob ELSE defaultSwapOption, LAMBDA option :
                With(performSwap(r.dom, existing, <<e>>, option), LAMBDA swapped :
                With(GetElementById(swapped.dom, e.id), LAMBDA again :
                With([dom    |-> IF again = NoNode \/ swapped.threw THEN swapped.dom
                                 ELSE scanForElements(swapped.dom, again),
                      threw  |-> swapped.threw,
                      swaps  |-> Append(r.swaps, [target |-> existing, content |-> <<e>>,
                                                 option |-> option, primary |-> FALSE]),
                      oobLog |-> Append(r.oobLog, [id |-> e.id, existing |-> existing]),
                      errors |-> r.errors],
                     LAMBDA r1 :
                         IF r1.threw THEN r1
                         ELSE handleOobSwapping(r1, Tail(oobElements))))))))

\* processResponse(responseText, targetElement, element) with the headers of
\* this.lastResponse, up to the afterSettle hooks: the document it leaves,
\* whether it threw, and the calls it made.
processResponse(d, resp, responseText, targetElement, element) ==
    With(StripOob(responseText), LAMBDA newContent :
    With(FinalTarget(d, resp.xTarget, targetElement), LAMBDA final :
    With(SwapOption(d, resp.xSwap, element), LAMBDA swapOption :
    With(performSwap(d, final, newContent, swapOption), LAMBDA primary :
    With(<<[target |-> final, content |-> newContent, option |-> swapOption,
            primary |-> TRUE]>>, LAMBDA log :
    With(IF TargetHeaderUnresolved(d, resp.xTarget) THEN <<"X-Target">> ELSE <<>>,
         LAMBDA errors :
         IF primary.threw \/ final = Window
         THEN [dom |-> primary.dom, threw |-> TRUE, swaps |-> log, oobLog |-> <<>>,
               errors |-> errors]
         ELSE With(handleOobSwapping([dom    |-> scanForElements(primary.dom, final),
                                      threw  |-> FALSE,
                                      swaps  |-> log,
                                      oobLog |-> <<>>,
                                      errors |-> errors],
                                     OobElements(responseText)), LAMBDA oob :
                   IF oob.threw
                   THEN oob
                   ELSE IF resp.xInfiniteScroll = "stop" /\ d[element].kind = "scroll"
                        THEN [oob EXCEPT !.dom = stopInfiniteScroll(@, element)]
                        ELSE oob)))))))

\* ------------------------------------------- the page and its interactions

\* The markup of the page: an action element targeting itself, a region
\* with a button inside that targets it, and a scroll container.
InitialMarkup(regionSwap) ==
    << Elem("a", "action", None, None, None, <<>>),
       Elem("b", "plain", None, regionSwap, None,
            << Elem(None, "action", "b", None, None, <<>>) >>),
       Elem("s", "scroll", None, "beforeend", None, <<>>) >>

\* The document once DOMContentLoaded has run scanForElements().
InitialDocument(regionSwap) ==
    With(AddForest((Body :> NewNode(Elem(None, "body", None, None, None, <<>>), <<>>)),
                   InitialMarkup(regionSwap)), LAMBDA parsed :
         scanForElements([parsed.dom EXCEPT ![Body].kids = parsed.roots], Body))

Oob(id, option, kids) == Elem(id, "plain", None, None, option, kids)

\* The responses a server sends in this model.
Responses ==
    { Response(<<Plain(None, <<>>)>>, None, None, None),
      Response(<<Oob("a", "innerHTML", <<>>), Elem(None, "action", "a", None, None, <<>>)>>,
               "nope", "afterend", None),
      Response(<<Plain(None, <<Oob("b", "", <<Oob("zz", "outerHTML", <<>>)>>)>>)>>,
               "a", "outerHTML", None),
      Response(<<Plain(None, <<>>)>>, None, None, "stop"),
      Response(<<Plain("a", <<>>)>>, "root", None, None) }

\* A history entry as popstate delivers it; state = FALSE is event.state null.
HistoryState(state, xPartial, partialId, url, swapOption) ==
    [state |-> state, xPartial |-> xPartial, partialId |-> partialId, url |-> url,
     swapOption |-> swapOption]

HistoryStates ==
    { HistoryState(FALSE, FALSE, None, None, None),
      HistoryState(TRUE, FALSE, "a", "/u", None),
      HistoryState(TRUE, TRUE, None, "/u", None),
      HistoryState(TRUE, TRUE, "a", None, None),
      HistoryState(TRUE, TRUE, "gone", "/u", None),
      HistoryState(TRUE, TRUE, "b", "/u", "innerHTML"),
      HistoryState(TRUE, TRUE, "s", "/u", None) }

DomInit ==
    /\ dom = InitialDocument("outerHTML")
    /\ lastResponse = NoResponse
    /\ inflight = {}
    /\ recon = NoRecon
    /\ loads = <<>>
    /\ reloads = 0
    /\ requests = 0
    /\ hookLog = <<>>
    /\ popped = <<>>
    /\ lastSwap = NoSwap
    /\ CoreIdle
    /\ DebIdle
    /\ ExtIdle

\* extractRequestParams: the x-target found from the element upwards, else
\* the element's own id ('#id'), else 'body' (which has no id here).
TargetSelector(d, el) ==
    With(getAttributeWithInheritance(d, el, "target"), LAMBDA xTarget :
         IF xTarget # None THEN xTarget ELSE d[el].id)

\* The default error handling: the notice replaces the target's content.
ErrorNotice(d, t) ==
    With(AddForest(d, <<Elem(None, "error", None, None, None, <<>>)>>), LAMBDA made :
         [made.dom EXCEPT ![t].kids = made.roots])

Interaction(no, kind, element, target, selector, swapOption) ==
    [no |-> no, kind |-> kind, element |-> element, target |-> target,
     selector |-> selector, swapOption |-> swapOption, stage |-> "request",
     text |-> <<>>]

\* The trigger listener of an action element runs handleAction up to the
\* network call: the target is resolved (no request without it), the onAction
\* and beforeRequest hooks run.
\* A number that tells the new interaction of an element from those of the
\* same element still in flight: the least one not in use.
FreeNo(el) ==
    LET used == {j.no : j \in {k \in inflight : k.element = el}}
    IN CHOOSE n \in 1..(Cardinality(used) + 1) : n \notin used /\ \A m \in 1..(n - 1) : m \in used

TriggerAction(el) ==
    /\ requests < MaxInteractions
    /\ InDocument(dom, el)
    /\ dom[el].kind = "action"
    /\ dom[el].listeners > 0
    /\ \E sel \in {TargetSelector(dom, el)} :
       \E t \in {GetElementById(dom, sel)} :
          /\ t # NoNode
          /\ inflight' = inflight \cup
                {Interaction(FreeNo(el), "action", el, t, sel, None)}
    /\ requests' = requests + 1
    /\ hookLog' = hookLog \o <<"onAction", "beforeRequest">>
    /\ UNCHANGED <<dom, lastResponse, recon, loads, reloads, popped, lastSwap>>
    /\ OnlyDom

\* A slip in the observer callback: the sentinel is not unobserved.
IntersectKeepsObserving(c, o) ==
    /\ requests < MaxInteractions
    /\ dom[c].kind = "scroll"
    /\ o \in dom[c].observing
    /\ dom[c].sentinel # NoNode
    /\ InDocument(dom, dom[c].sentinel)
    /\ GetElementById(dom, TargetSelector(dom, c)) # NoNode
    /\ inflight' = inflight \cup
          {Interaction(FreeNo(c), "scroll", c, NoNode, TargetSelector(dom, c), None)}
    /\ loads' = Append(loads, c)
    /\ requests' = requests + 1
    /\ hookLog' = Append(hookLog, "beforeRequest")
    /\ UNCHANGED <<dom, lastResponse, recon, reloads, popped, lastSwap>>
    /\ OnlyDom

\* The sentinel of an armed container intersects the viewport: the observer
\* unobserves it and handleInfiniteScrollAction issues the load, unless
\* prepareRequestParams finds no node for the target selector and throws.
Intersect(c, o) ==
    /\ requests < MaxInteractions
    /\ dom[c].kind = "scroll"
    /\ o \in dom[c].observing
    /\ dom[c].sentinel # NoNode
    /\ InDocument(dom, dom[c].sentinel)
    /\ dom' = [dom EXCEPT ![c].observing = @ \ {o}]
    /\ \E sel \in {TargetSelector(dom, c)} :
          IF GetElementById(dom, sel) = NoNode
          THEN UNCHANGED <<inflight, loads, requests, hookLog>>
          ELSE /\ inflight' = inflight \cup
                     {Interaction(FreeNo(c), "scroll", c, NoNode, sel, None)}
               /\ loads' = Append(loads, c)
               /\ requests' = requests + 1
               /\ hookLog' = Append(hookLog, "beforeRequest")
    /\ UNCHANGED <<lastResponse, recon, reloads, popped, lastSwap>>
    /\ OnlyDom

\* A slip in handlePopState: the replay is tried whenever the marker is there.
handlePopStateNoFieldCheck(h) ==
    IF h.state /\ h.xPartial
    THEN /\ inflight' = inflight \cup
              {Interaction(FreeNo(Body), "pop", Body, Body, h.partialId, h.swapOption)}
         /\ requests' = requests + 1
         /\ hookLog' = Append(hookLog, "beforeRequest")
         /\ UNCHANGED reloads
    ELSE /\ reloads' = reloads + 1
         /\ UNCHANGED <<inflight, requests, hookLog>>

\* handlePopState(event): a full reload unless the state carries the marker,
\* a partialId and a url, and a node of that id exists; else the request is
\* replayed for that node.
handlePopState(h) ==
    IF h.state /\ h.xPartial
    THEN IF h.partialId = None \/ h.url = None
         THEN /\ reloads' = reloads + 1
              /\ UNCHANGED <<inflight, requests, hookLog>>
         ELSE IF GetElementById(dom, h.partialId) = NoNode
              THEN /\ reloads' = reloads + 1
                   /\ UNCHANGED <<inflight, requests, hookLog>>
              ELSE \E t \in {GetElementById(dom, h.partialId)} :
                      /\ inflight' = inflight \cup
                            {Interaction(FreeNo(t), "pop", t, t,
                                         TargetSelector(dom, t), h.swapOption)}
                      /\ requests' = requests + 1
                      /\ hookLog' = Append(hookLog, "beforeRequest")
                      /\ UNCHANGED reloads
    ELSE /\ reloads' = reloads + 1
         /\ UNCHANGED <<inflight, requests, hookLog>>

WellFormed(h) ==
    /\ h.state /\ h.xPartial
    /\ h.partialId # None /\ h.url # None
    /\ GetElementById(dom, h.partialId) # NoNode

\* A popstate event reaches the window listener.
PopState(h) ==
    /\ Len(popped) < MaxPops
    /\ WellFormed(h) => requests < MaxInteractions
    /\ popped' = Append(popped, h)
    /\ handlePopState(h)
    /\ UNCHANGED <<dom, lastResponse, recon, loads, lastSwap>>
    /\ OnlyDom

\* A slip in performRequest: a response is stored only while the slot is empty.
RespondKeepsSlot(i, r) ==
    /\ i \in inflight
    /\ i.stage = "request"
    /\ lastResponse' = IF lastResponse = NoResponse THEN r ELSE lastResponse
    /\ hookLog' = Append(hookLog, "afterResponse")
    /\ inflight' = (inflight \ {i}) \cup {[i EXCEPT !.stage = "text", !.text = r.text]}
    /\ UNCHANGED <<dom, recon, loads, reloads, requests, popped, lastSwap>>
    /\ OnlyDom

\* The network call of performRequest returns a response: it is stored in
\* this.lastResponse, the afterResponse hooks run, the body text is read.
Respond(i, r) ==
    /\ i \in inflight
    /\ i.stage = "request"
    /\ lastResponse' = r
    /\ hookLog' = Append(hookLog, "afterResponse")
    /\ inflight' = (inflight \ {i}) \cup {[i EXCEPT !.stage = "text", !.text = r.text]}
    /\ UNCHANGED <<dom, recon, loads, reloads, requests, popped, lastSwap>>
    /\ OnlyDom

\* performRequest throws (every attempt failed, or a timeout): the error
\* handling of the caller, by default a notice written into the target
\* (handleAction) or into the container (scroll load).
Fail(i) ==
    /\ i \in inflight
    /\ i.stage = "request"
    /\ inflight' = inflight \ {i}
    /\ dom' = CASE i.kind = "action" -> ErrorNotice(dom, i.target)
                [] i.kind = "scroll" -> ErrorNotice(dom, i.element)
                [] OTHER -> dom
    /\ UNCHANGED <<lastResponse, recon, loads, reloads, requests, hookLog, popped, lastSwap>>
    /\ OnlyDom

Recon(i, t, el, d, r) ==
    [no |-> i.no, text |-> i.text, targetElement |-> t, element |-> el,
     response |-> lastResponse, before |-> d, threw |-> r.threw, swaps |-> r.swaps,
     oobLog |-> r.oobLog, errors |-> r.errors]

\* The body text has arrived: the caller goes on to processResponse and to
\* what follows it.
\*   handleAction: the target found before the request; a throw ends in the
\*     default error notice.
\*   handleInfiniteScrollAction: the target is looked up now; after
\*     processResponse the container is set up again.
\*   handlePopState: the target is looked up now and given the recorded
\*     x-swap.
SettleDom(i) ==
    /\ i \in inflight
    /\ i.stage = "text"
    /\ inflight' = inflight \ {i}
    /\ \E t \in {IF i.kind = "action" THEN i.target ELSE GetElementById(dom, i.selector)} :
       IF t = NoNode
       THEN UNCHANGED <<dom, recon, hookLog>>
       ELSE \E el \in {IF i.kind = "pop" THEN t ELSE i.element} :
            \E d \in {IF i.kind = "pop" /\ i.swapOption # None
                       THEN [dom EXCEPT ![t].swap = i.swapOption]
                       ELSE dom} :
            \E r \in {processResponse(d, lastResponse, i.text, t, el)} :
               /\ recon' = Recon(i, t, el, d, r)
               /\ hookLog' = IF r.threw THEN hookLog ELSE Append(hookLog, "afterSettle")
               /\ dom' = CASE i.kind = "action" ->
                                IF r.threw THEN ErrorNotice(r.dom, t) ELSE r.dom
                           [] i.kind = "scroll" ->
                                IF r.threw THEN ErrorNotice(r.dom, el)
                                ELSE setupInfiniteScroll(r.dom, el)
                           [] OTHER -> r.dom
    /\ UNCHANGED <<lastResponse, loads, reloads, requests, popped, lastSwap>>

Settle(i) == SettleDom(i) /\ OnlyDom

\* refresh(container = document): scanForElements over the document.
Refresh ==
    /\ dom' = scanForElements(dom, Body)
    /\ UNCHANGED <<lastResponse, inflight, recon, loads, reloads, requests, hookLog,
                   popped, lastSwap>>
    /\ OnlyDom

\* A collaborator calls performSwap on an element of the document.
DirectSwap(target, content, option) ==
    /\ lastSwap.no < MaxDirectSwaps
    /\ InDocument(dom, target)
    /\ \E r \in {performSwap(dom, target, content, option)} :
          /\ dom' = r.dom
          /\ lastSwap' = [no |-> lastSwap.no + 1, before |-> dom, target |-> target,
                          option |-> option, threw |-> r.threw]
    /\ UNCHANGED <<lastResponse, inflight, recon, loads, reloads, requests, hookLog, popped>>
    /\ OnlyDom

DomNext ==
    \/ \E el \in DOMAIN dom : TriggerAction(el)
    \/ \E c \in DOMAIN dom : \E o \in dom[c].observing : Intersect(c, o)
    \/ \E i \in inflight : \E r \in Responses : Respond(i, r)
    \/ \E i \in inflight : Fail(i)
    \/ \E i \in inflight : Settle(i)
    \/ Refresh

SpecDom == DomInit /\ [][DomNext]_vars

\* History navigation: popstate events and the replays they start.
NavNext ==
    \/ \E h \in HistoryStates : PopState(h)
    \/ \E i \in inflight : \E r \in Responses : Respond(i, r)
    \/ \E i \in inflight : Fail(i)
    \/ \E i \in inflight : Settle(i)

SpecNav == DomInit /\ [][NavNext]_vars

\* What collaborators swap in.
DirectContents ==
    { <<Plain("b", <<>>)>>,
      <<Elem(None, "action", "a", None, None, <<>>), Plain("a", <<>>)>> }

SwapNext ==
    \/ \E target \in DOMAIN dom : \E content \in DirectContents :
           \E option \in SwapOptions \cup {"true"} : DirectSwap(target, content, option)
    \/ Refresh

SpecSwap == DomInit /\ [][SwapNext]_vars

\* ---------------------------------------------------------------------------
\* Properties of the reconciler, the swap and the scroll containers
\* ---------------------------------------------------------------------------

RECURSIVE HasMarker(_)
\* Some element of the markup, at any depth, carries x-swap-oob.
HasMarker(forest) ==
    /\ forest # <<>>
    /\ \/ Head(forest).oob # None
       \/ HasMarker(Head(forest).kids)
       \/ HasMarker(Tail(forest))

RECURSIVE MarkedIds(_)
\* The identifiers of the marked elements of the markup, in document order.
MarkedIds(forest) ==
    IF forest = <<>>
    THEN <<>>
    ELSE (IF Head(forest).oob # None THEN <<Head(forest).id>> ELSE <<>>)
         \o MarkedIds(Head(forest).kids)
         \o MarkedIds(Tail(forest))

\* A reconciliation has run to its end.
Reconciled == recon.no # 0 /\ ~recon.threw

PrimarySwaps == SelectSeq(recon.swaps, LAMBDA w : w.primary)

OobSwaps == SelectSeq(recon.swaps, LAMBDA w : ~w.primary)

\* The fragments whose identifier named a document node when they were handled.
MatchedOob == SelectSeq(recon.oobLog, LAMBDA o : o.existing # NoNode)

\* C5: in every completed reconciliation the content of the primary swap holds
\* no marked element, every marked element of the response text is handled,
\* in document order, and the out-of-band swaps are exactly one per fragment
\* whose identifier named a document node, into that node, with the fragment
\* (freed of the marked elements it contained) as content.
C5_OobOutOfPrimaryAndOnce ==
    Reconciled =>
        /\ Len(PrimarySwaps) = 1
        /\ recon.swaps[1].primary
        /\ ~HasMarker(recon.swaps[1].content)
        /\ [k \in DOMAIN recon.oobLog |-> recon.oobLog[k].id] = MarkedIds(recon.text)
        /\ Len(OobSwaps) = Len(MatchedOob)
        /\ \A k \in DOMAIN OobSwaps :
              /\ OobSwaps[k].target = MatchedOob[k].existing
              /\ Len(OobSwaps[k].content) = 1
              /\ OobSwaps[k].content[1].id = MatchedOob[k].id
              /\ OobSwaps[k].content[1].oob # None
              /\ ~HasMarker(OobSwaps[k].content[1].kids)

\* A reconciliation whose text nests a marked element in ordinary content and
\* another inside it, one of them swapped into its node, the other skipped.
C5_Witness ==
    /\ Reconciled
    /\ Len(MarkedIds(recon.text)) = 2
    /\ recon.text[1].oob = None
    /\ Len(MatchedOob) = 1
    /\ Len(recon.oobLog) = 2

\* C6: the primary swap goes to the node the X-Target header names when it
\* names one; when it names none and is not 'root', the error is reported and
\* the primary swap goes to the target the caller supplied.
C6_TargetHeaderPrecedence ==
    (recon.no # 0 /\ recon.response.xTarget # None) =>
        LET named == GetElementById(recon.before, recon.response.xTarget)
        IN /\ named # NoNode =>
                /\ recon.swaps[1].target = named
                /\ recon.errors = <<>> \/ recon.errors[1] # "X-Target"
           /\ (named = NoNode /\ recon.response.xTarget # "root") =>
                /\ recon.swaps[1].target = recon.targetElement
                /\ recon.errors # <<>>
                /\ recon.errors[1] = "X-Target"

\* The header named a node other than the caller's target, and the swap went
\* there.
C6_Witness ==
    /\ Reconciled
    /\ recon.response.xTarget # None
    /\ GetElementById(recon.before, recon.response.xTarget)
          \notin {NoNode, recon.targetElement}
    /\ recon.swaps[1].target = GetElementById(recon.before, recon.response.xTarget)

RECURSIVE AncestorsOrSelf(_, _)
\* The element, its parent, its parent's parent, ... up to the root.
AncestorsOrSelf(d, n) ==
    IF n = NoNode THEN <<>> ELSE <<n>> \o AncestorsOrSelf(d, Parent(d, n))

\* The elements of that chain that declare x-swap, nearest first.
SwapDeclarers(d, n) == SelectSeq(AncestorsOrSelf(d, n), LAMBDA m : d[m].swap # None)

\* C7: the strategy of the primary swap is the X-Swap header when present, else
\* the x-swap of the triggering element or of its nearest ancestor declaring
\* one, else the engine default.
C7_SwapStrategyPrecedence ==
    recon.no # 0 =>
        LET declarers == SwapDeclarers(recon.before, recon.element)
        IN recon.swaps[1].option =
              IF recon.response.xSwap # None
              THEN recon.response.xSwap
              ELSE IF declarers # <<>>
                   THEN recon.before[Head(declarers)].swap
                   ELSE "innerHTML"

\* No header, nothing on the element itself: the strategy of an ancestor was
\* used, and it is not the default.
C7_Witness ==
    /\ Reconciled
    /\ recon.response.xSwap = None
    /\ recon.before[recon.element].swap = None
    /\ SwapDeclarers(recon.before, recon.element) # <<>>
    /\ recon.swaps[1].option = "outerHTML"

\* C8: a performSwap with 'innerHTML' leaves the target node in the document,
\* its identifier still resolving to it; one with 'outerHTML' takes the target
\* node out of the document.
C8_SwapIdentity ==
    [][lastSwap'.no # lastSwap.no =>
          LET target == lastSwap'.target
          IN /\ lastSwap'.option = "innerHTML" =>
                  /\ InDocument(dom', target)
                  /\ GetElementById(dom, dom[target].id) = target =>
                          GetElementById(dom', dom[target].id) = target
             /\ lastSwap'.option = "outerHTML" => ~InDocument(dom', target)]_vars

\* An 'innerHTML' swap into a node with an identifier has been made, with
\* content that itself holds an element of that identifier.
C8_Witness ==
    /\ lastSwap.no # 0
    /\ lastSwap.option = "innerHTML"
    /\ lastSwap.before[lastSwap.target].id = "a"
    /\ GetElementById(dom, "a") = lastSwap.target
    /\ \E k \in DOMAIN dom : k # lastSwap.target /\ dom[k].id = "a" /\ InDocument(dom, k)

\* The last load was issued for container c by this step.
LoadIssued(c) == Len(loads') > Len(loads) /\ loads'[Len(loads')] = c

\* C9: a reconciliation for a scroll container under X-Infinite-Scroll: stop
\* leaves the container stopped, its sentinel out of the document; and a
\* stopped container stays stopped, is observed by nothing, has no sentinel and
\* gets no further load, whatever step follows.
C9_ScrollStopIsTerminal ==
    /\ [](\A c \in DOMAIN dom :
            (/\ Reconciled
             /\ recon.element = c
             /\ recon.before[c].kind = "scroll"
             /\ recon.response.xInfiniteScroll = "stop") =>
                /\ dom[c].stopped
                /\ recon.before[c].sentinel # NoNode =>
                        ~InDocument(dom, recon.before[c].sentinel))
    /\ [][\A c \in DOMAIN dom :
            dom[c].stopped =>
                /\ dom'[c].stopped
                /\ dom'[c].sentinel = NoNode
                /\ dom'[c].observing = {}
                /\ ~LoadIssued(c)]_vars

\* A container was stopped, and a reconciliation that began after that has
\* been made.
C9_Witness ==
    /\ recon.no # 0
    /\ \E c \in DOMAIN recon.before : recon.before[c].stopped /\ dom[c].stopped

\* The entry lacks the marker, or the target identifier, or the URL.
LacksMarkerOrFields(h) ==
    \/ ~(h.state /\ h.xPartial)
    \/ h.partialId = None
    \/ h.url = None

\* C10: a popstate whose entry lacks the marker, the target identifier or the
\* URL reloads the document and does nothing else: no request, no hook, no
\* swap.
C10_MalformedEntryReloads ==
    [][(Len(popped') > Len(popped) /\ LacksMarkerOrFields(popped'[Len(popped')])) =>
          /\ reloads' = reloads + 1
          /\ UNCHANGED <<requests, inflight, hookLog, dom, recon, lastResponse>>]_vars

\* An entry with the marker and a target identifier but no URL has been popped.
C10_Witness ==
    /\ popped # <<>>
    /\ LET h == popped[Len(popped)]
       IN h.state /\ h.xPartial /\ h.partialId # None /\ h.url = None
    /\ reloads = Len(popped)

\* ------------------------------------------------- setupElement and debounce

\* elementDebounceTime: the x-debounce value when it parses to an integer
\* >= 0, else the process-wide debounceTime.
elementDebounceTime ==
    IF xDebounce.kind = "int" /\ xDebounce.val >= 0
    THEN xDebounce.val
    ELSE debounceTime

\* clearTimeout(id): the timer with that id, if still set, is dropped.
ClearTimeout(timers, id) == {t \in timers : t.id # id}

\* setupElement has attached the listener: the delay is settled, no event yet.
DebInit ==
    /\ now = 0
    /\ debounceTime \in 0..1
    /\ xDebounce \in {NoAttr, NotANumber} \cup {IntAttr(n) : n \in -1..MaxWait}
    /\ evTimes = <<>>
    /\ debTimeout = 0
    /\ pending = {}
    /\ calls = <<>>
    /\ CoreIdle
    /\ DomIdle
    /\ ExtIdle

\* The function debounce returns, called with event ev: clearTimeout(timeout);
\* timeout = setTimeout(later, wait), later holding ev. A slip beside it: the
\* timer set before is not cleared.
DebouncedNoClear(ev, wait) ==
    /\ pending' = pending \cup {[id |-> ev, due |-> now + wait, args |-> ev]}
    /\ debTimeout' = ev

Debounced(ev, wait) ==
    /\ pending' = ClearTimeout(pending, debTimeout)
                    \cup {[id |-> ev, due |-> now + wait, args |-> ev]}
    /\ debTimeout' = ev

\* The trigger event reaches the listener: preventDefault, then the debounced
\* function with the event.
Trigger ==
    /\ Len(evTimes) < MaxEvents
    /\ evTimes' = Append(evTimes, now)
    /\ Debounced(Len(evTimes) + 1, elementDebounceTime)
    /\ UNCHANGED <<now, debounceTime, xDebounce, calls>>
    /\ OnlyDebounce

\* A timer that is due runs later(): clearTimeout(timeout), then
\* handleAction with the event it holds.
Later(t) ==
    /\ t \in pending
    /\ now >= t.due
    /\ pending' = ClearTimeout(pending \ {t}, debTimeout)
    /\ calls' = Append(calls, [event |-> t.args, time |-> now])
    /\ UNCHANGED <<now, debounceTime, xDebounce, evTimes, debTimeout>>
    /\ OnlyDebounce

\* Time passes; a due timer may run late.
Tick ==
    /\ now < MaxTime
    /\ now' = now + 1
    /\ UNCHANGED <<debounceTime, xDebounce, evTimes, debTimeout, pending, calls>>
    /\ OnlyDebounce

DebNext ==
    \/ Trigger
    \/ \E t \in pending : Later(t)
    \/ Tick

SpecDebounce == DebInit /\ [][DebNext]_vars

\* ------------------------------------------- properties of the debounce gate

\* Every event but the first arrived less than the delay after the previous.
AllWithinWindow ==
    \A i \in 2..Len(evTimes) : evTimes[i] - evTimes[i - 1] < elementDebounceTime

\* C4: while every trigger event on the element has arrived less than the
\* debounce delay after the previous one, at most one timer is pending and it
\* holds the last event; handleAction is invoked at most once, with the last
\* event, no earlier than the delay after it, and it has been invoked as soon
\* as no timer is pending.
C4_DebounceCollapses ==
    (evTimes # <<>> /\ AllWithinWindow) =>
        /\ Cardinality(pending) + Len(calls) = 1
        /\ \A t \in pending : t.args = Len(evTimes)
        /\ \A i \in DOMAIN calls :
            /\ calls[i].event = Len(evTimes)
            /\ calls[i].time >= evTimes[Len(evTimes)] + elementDebounceTime

\* A burst of three events at different instants, collapsed into one call.
C4_Witness ==
    /\ Len(evTimes) >= 3
    /\ AllWithinWindow
    /\ evTimes[1] < evTimes[2]
    /\ Len(calls) = 1
    /\ pending = {}

\* ------------------------------------------------------- performRequestCore

\* const maxAttempts = maxRetries + 1, with a plausible slip beside it.
MaxAttemptsNoPlusOne == maxRetries

maxAttempts == maxRetries + 1

\* The catch block: an AbortError leaves at once as 'Request timed out', any
\* other error is rethrown on the last attempt and swallowed before it.
CatchRetriesAbort(kind) ==
    IF attempts >= maxAttempts
    THEN pc' = "thrown" /\ error' = (IF kind = "abort" THEN "Request timed out" ELSE kind)
    ELSE pc' = "loop" /\ error' = error

\* A slip in the catch block: the last attempt's error is swallowed like the
\* others.
CatchSwallowsLast(kind) ==
    IF kind = "abort"
    THEN pc' = "thrown" /\ error' = "Request timed out"
    ELSE pc' = "loop" /\ error' = error

Catch(kind) ==
    IF kind = "abort"
    THEN pc' = "thrown" /\ error' = "Request timed out"
    ELSE IF attempts >= maxAttempts
         THEN pc' = "thrown" /\ error' = kind
         ELSE pc' = "loop" /\ error' = error

\* The state in which performRequestCore is entered with maxRetries n and
\* timeout t: a fresh AbortController, attempts = 0.
CoreInit ==
    /\ pc = "loop"
    /\ maxRetries \in -1..MaxRetries
    /\ timeout \in {0, 1}
    /\ attempts = 0
    /\ armed = {}
    /\ aborted = FALSE
    /\ netCalls = 0
    /\ hist = <<>>
    /\ error = "none"
    /\ DebIdle
    /\ DomIdle
    /\ ExtIdle

\* while (attempts < maxAttempts) { attempts++; setTimeout?; fetch(...) }
StartAttempt ==
    /\ pc = "loop"
    /\ attempts < maxAttempts
    /\ attempts' = attempts + 1
    /\ armed' = IF timeout # 0 THEN armed \cup {attempts + 1} ELSE armed
    /\ netCalls' = netCalls + 1
    /\ pc' = "fetch"
    /\ UNCHANGED <<maxRetries, timeout, aborted, hist, error>>
    /\ OnlyCore

\* The loop is left without a return or a throw: the trailing throw.
LoopExit ==
    /\ pc = "loop"
    /\ ~(attempts < maxAttempts)
    /\ pc' = "thrown"
    /\ error' = "No response returned"
    /\ UNCHANGED <<maxRetries, timeout, attempts, armed, aborted, netCalls, hist>>
    /\ OnlyCore

\* fetch resolves with response.ok: clearTimeout, return response.
FetchOk ==
    /\ pc = "fetch"
    /\ armed' = armed \ {attempts}
    /\ hist' = Append(hist, "ok")
    /\ pc' = "returned"
    /\ UNCHANGED <<maxRetries, timeout, attempts, aborted, netCalls, error>>
    /\ OnlyCore

\* fetch resolves with a non-success status: clearTimeout, await response.text().
FetchNotOk ==
    /\ pc = "fetch"
    /\ armed' = armed \ {attempts}
    /\ pc' = "text"
    /\ UNCHANGED <<maxRetries, timeout, attempts, aborted, netCalls, hist, error>>
    /\ OnlyCore

\* The body text arrives: throw new Error(`HTTP error ...`), caught below it.
TextRead ==
    /\ pc = "text"
    /\ hist' = Append(hist, "http")
    /\ Catch("HTTP error")
    /\ UNCHANGED <<maxRetries, timeout, attempts, armed, aborted, netCalls>>
    /\ OnlyCore

\* fetch rejects with a network error: the timer of this attempt stays armed.
FetchReject ==
    /\ pc = "fetch"
    /\ hist' = Append(hist, "net")
    /\ Catch("network error")
    /\ UNCHANGED <<maxRetries, timeout, attempts, armed, aborted, netCalls>>
    /\ OnlyCore

\* A timer fires: controller.abort(). A pending fetch or body read rejects
\* with an AbortError, which the catch block handles.
TimerFire(k) ==
    /\ k \in armed
    /\ armed' = armed \ {k}
    /\ aborted' = TRUE
    /\ IF pc \in {"fetch", "text"}
       THEN hist' = Append(hist, "abort") /\ Catch("abort")
       ELSE UNCHANGED <<hist, pc, error>>
    /\ UNCHANGED <<maxRetries, timeout, attempts, netCalls>>
    /\ OnlyCore

CoreNext ==
    \/ StartAttempt
    \/ LoopExit
    \/ FetchOk
    \/ FetchNotOk
    \/ TextRead
    \/ FetchReject
    \/ \E k \in 1..(MaxRetries + 1) : TimerFire(k)

SpecCore == CoreInit /\ [][CoreNext]_vars

\* --------------------------------------------- properties of the request core

TimedOut == error = "Request timed out"

AllAttemptsFailed == \A i \in DOMAIN hist : hist[i] \in {"http", "net"}

\* C1: with maxRetries = n >= 0 and no timeout firing, a request whose every
\* attempt fails has made exactly n+1 network calls when the error is thrown
\* (and never more than n+1 on the way), and a request whose first attempt
\* succeeds has made exactly 1.
C1_AttemptCount ==
    /\ (maxRetries >= 0 /\ AllAttemptsFailed) => netCalls <= maxRetries + 1
    /\ (maxRetries >= 0 /\ AllAttemptsFailed /\ pc = "thrown") => netCalls = maxRetries + 1
    /\ (pc = "returned" /\ hist[1] = "ok") => netCalls = 1

\* Sustained failure of both kinds with at least one retry, no timer fired.
C1_Witness ==
    /\ pc = "thrown"
    /\ maxRetries >= 1
    /\ ~aborted
    /\ Len(hist) = maxRetries + 1
    /\ \E i, j \in DOMAIN hist : hist[i] = "http" /\ hist[j] = "net"

C3_TimeoutNotRetried ==
    /\ [][(~aborted /\ aborted' /\ pc \in {"fetch", "text"})
            => (pc' = "thrown" /\ error' = "Request timed out")]_vars
    /\ [][TimedOut => (TimedOut' /\ pc' = "thrown" /\ netCalls' = netCalls)]_vars

\* The timer of an earlier attempt, left armed by a network error, fires in a
\* later attempt that still has retries left.
C3_Witness ==
    /\ TimedOut
    /\ Len(hist) >= 2
    /\ hist[1] = "net"
    /\ attempts <= maxRetries
    /\ Cardinality(armed) < attempts - 1

\* ---------------------------------------------------------------------------
\* Inheritable attributes and the places that read them
\* ---------------------------------------------------------------------------

\* this.INHERITABLE_ATTRIBUTES
InheritableAttributes ==
    {"target", "swap", "serialize", "trigger", "loadingClass", "indicator",
     "retry", "timeout", "focus", "debounce"}

\* A node of the chain: its tag, what it declares for attribute a, its child.
ChainNode(tag, a, value, kids) ==
    [x \in InheritableAttributes |-> IF x = a THEN value ELSE None]
        @@ [tag |-> tag, kids |-> kids]

\* The root, its child, ... down to the element, the last node; values[n + 1]
\* is what node n declares for a, and the element has the given tag.
Chain(tag, a, values) ==
    [n \in 0..(Len(values) - 1) |->
        ChainNode(IF n = Len(values) - 1 THEN tag ELSE "DIV", a, values[n + 1],
                  IF n < Len(values) - 1 THEN <<n + 1>> ELSE <<>>)]

InhInit ==
    /\ inhAttr \in InheritableAttributes
    /\ \E tag \in {"FORM", "DIV"} : \E depth \in 1..MaxDepth :
       \E values \in [1..depth -> {None, "x", "y"}] :
           inhDoc = Chain(tag, inhAttr, values)
    /\ inhRead = NoRead
    /\ CoreIdle
    /\ DebIdle
    /\ DomIdle
    /\ HookIdle
    /\ ActIdle
    /\ SseIdle
    /\ HdrIdle

\* setupElement: let trigger. A form reads its own attribute only.
ElementTrigger(d, el) ==
    IF d[el].tag = "FORM"
    THEN IF d[el].trigger # None THEN d[el].trigger ELSE "submit"
    ELSE With(getAttributeWithInheritance(d, el, "trigger"),
              LAMBDA t : IF t # None THEN t ELSE "click")

\* performRequest: const serializeType = element?.getAttribute(x-serialize) || 'json'
SerializeType(d, el) ==
    IF d[el].serialize # None THEN d[el].serialize ELSE "json"

\* setupElement reads the trigger of the element it sets up.
ReadTrigger(el) ==
    /\ inhAttr = "trigger"
    /\ inhRead' = [el |-> el, value |-> ElementTrigger(inhDoc, el)]
    /\ UNCHANGED <<inhDoc, inhAttr>>
    /\ UNCHANGED <<coreVars, debVars, domVars, hookVars, actVars, sseVars, hdrVars>>

\* performRequest reads the serialization kind of the triggering element.
ReadSerialize(el) ==
    /\ inhAttr = "serialize"
    /\ inhRead' = [el |-> el, value |-> SerializeType(inhDoc, el)]
    /\ UNCHANGED <<inhDoc, inhAttr>>
    /\ UNCHANGED <<coreVars, debVars, domVars, hookVars, actVars, sseVars, hdrVars>>

\* The other reads: handleAction (indicator, loading class, focus, timeout,
\* retry), extractRequestParams (target), processResponse (swap), setupElement
\* (debounce), all through getAttributeWithInheritance.
ReadInherited(el) ==
    /\ inhAttr \notin {"trigger", "serialize"}
    /\ inhRead' = [el |-> el, value |-> getAttributeWithInheritance(inhDoc, el, inhAttr)]
    /\ UNCHANGED <<inhDoc, inhAttr>>
    /\ UNCHANGED <<coreVars, debVars, domVars, hookVars, actVars, sseVars, hdrVars>>

InhNext ==
    \/ \E el \in DOMAIN inhDoc : ReadTrigger(el)
    \/ \E el \in DOMAIN inhDoc : ReadSerialize(el)
    \/ \E el \in DOMAIN inhDoc : ReadInherited(el)

SpecInherit == InhInit /\ [][InhNext]_vars

\* The nodes from el up to the root that declare attribute a, nearest first.
Declarers(d, el, a) == SelectSeq(AncestorsOrSelf(d, el), LAMBDA m : d[m][a] # None)

\* What the engine uses when the attribute is declared nowhere on the chain.
AbsentValue(d, el, a) ==
    CASE a = "trigger" -> IF d[el].tag = "FORM" THEN "submit" ELSE "click"
      [] a = "serialize" -> "json"
      [] OTHER -> None

\* C12: every read of an inheritable attribute returns the value of the
\* element itself if it declares one, else the value of the nearest ancestor
\* that declares one, else absent (the engine's default); the trigger of a
\* form element included.
C12_EveryReadInherits ==
    inhRead.el # NoNode =>
        LET declarers == Declarers(inhDoc, inhRead.el, inhAttr)
        IN inhRead.value =
              IF declarers # <<>>
              THEN inhDoc[Head(declarers)][inhAttr]
              ELSE AbsentValue(inhDoc, inhRead.el, inhAttr)

\* ---------------------------------------------------------------------------
\* The hook registry, runHooks and handleError
\* ---------------------------------------------------------------------------

\* What a registered callback does when it is awaited.
Callback(id, does) == [id |-> id, does |-> does]

RegisteredCount ==
    Len(hooks["onAction"]) + Len(hooks["beforeRequest"]) + Len(hooks["afterResponse"])
        + Len(hooks["afterSettle"]) + Len(hooks["beforeSettle"])

HookInit ==
    /\ hooks = [ph \in HookPhases |-> <<>>]
    /\ onError \in BOOLEAN
    /\ hrun = NoRun
    /\ hookTrace = <<>>
    /\ handled = <<>>
    /\ notices = 0
    /\ hookRuns = <<>>
    /\ CoreIdle
    /\ DebIdle
    /\ DomIdle
    /\ InhIdle
    /\ SseIdle
    /\ HdrIdle
    /\ ActIdle

OnlyHooks == UNCHANGED <<coreVars, debVars, domVars, inhVars, actVars, sseVars, hdrVars>>

\* addHook(hookName, callback) with a function: pushed at the end of the
\* phase's list.
addHook(ph, does) ==
    /\ RegisteredCount < MaxHooks
    /\ hooks' = [hooks EXCEPT ![ph] = Append(@, Callback(RegisteredCount + 1, does))]
    /\ UNCHANGED <<onError, hrun, hookTrace, handled, notices, hookRuns>>
    /\ OnlyHooks

\* addHook with something that is not a function: console.error, nothing
\* registered.
addHookNotAFunction(ph) ==
    /\ UNCHANGED hookVars
    /\ OnlyHooks

\* handleError(error, element, targetElement): this.onError when it is a
\* function, else console.error and, given a target element, the error notice
\* written into it.
handleError(withTarget, source) ==
    /\ handled' = Append(handled, [by |-> IF onError THEN "onError" ELSE "builtin",
                                   source |-> source,
                                   notice |-> ~onError /\ withTarget])
    /\ notices' = IF ~onError /\ withTarget THEN notices + 1 ELSE notices

\* A slip beside the await in the loop of runHooks: the next callback is
\* started without waiting for the one before.
AwaitedNot(r) == TRUE

\* await callback(context): the loop goes on when the callback has completed.
Awaited(r) == r.running = {}

\* A slip beside the catch in the loop of runHooks: the failure leaves the
\* loop and rejects runHooks.
CaughtNot(r) == [r EXCEPT !.rejected = TRUE]

\* catch (error) { this.handleError(...) }: the loop goes on.
Caught(r) == r

\* Some operation calls runHooks(hookName, context); the context of onAction
\* and afterSettle names a target element.
StartRun(ph) ==
    /\ ~hrun.active
    /\ Len(hookRuns) < MaxHookRuns
    /\ hrun' = [active |-> TRUE, phase |-> ph, idx |-> 0, running |-> {},
                target |-> ph \in {"onAction", "afterSettle"}, rejected |-> FALSE]
    /\ hookRuns' = Append(hookRuns, "pending")
    /\ UNCHANGED <<hooks, onError, hookTrace, handled, notices>>
    /\ OnlyHooks

\* The loop reaches the next callback of the list and calls it.
HookStart ==
    /\ hrun.active /\ ~hrun.rejected
    /\ Awaited(hrun)
    /\ hrun.idx < Len(hooks[hrun.phase])
    /\ hrun' = [hrun EXCEPT !.idx = @ + 1, !.running = @ \cup {hrun.idx + 1}]
    /\ hookTrace' = Append(hookTrace, [ev |-> "start", run |-> Len(hookRuns),
                                       phase |-> hrun.phase,
                                       id |-> hooks[hrun.phase][hrun.idx + 1].id])
    /\ UNCHANGED <<hooks, onError, handled, notices, hookRuns>>

\* The callback returns, or its promise resolves.
HookReturn(i) ==
    /\ hrun.active
    /\ i \in hrun.running
    /\ hooks[hrun.phase][i].does = "returns"
    /\ hrun' = [hrun EXCEPT !.running = @ \ {i}]
    /\ hookTrace' = Append(hookTrace, [ev |-> "end", run |-> Len(hookRuns),
                                       phase |-> hrun.phase,
                                       id |-> hooks[hrun.phase][i].id])
    /\ UNCHANGED <<hooks, onError, handled, notices, hookRuns>>

\* The callback throws, or its promise rejects: the catch of the loop.
HookThrow(i) ==
    /\ hrun.active
    /\ i \in hrun.running
    /\ hooks[hrun.phase][i].does = "throws"
    /\ hrun' = Caught([hrun EXCEPT !.running = @ \ {i}])
    /\ hookTrace' = Append(hookTrace, [ev |-> "threw", run |-> Len(hookRuns),
                                       phase |-> hrun.phase,
                                       id |-> hooks[hrun.phase][i].id])
    /\ handleError(hrun.target, hooks[hrun.phase][i].id)
    /\ UNCHANGED <<hooks, onError, hookRuns>>

\* The loop is over: runHooks resolves; a failure that left the loop rejects
\* it.
HooksOver ==
    /\ hrun.active
    /\ \/ hrun.rejected
       \/ Awaited(hrun) /\ hrun.idx >= Len(hooks[hrun.phase])

RunDone ==
    /\ HooksOver
    /\ hookRuns' = [hookRuns EXCEPT ![Len(hookRuns)] =
                        IF hrun.rejected THEN "rejected" ELSE "resolved"]
    /\ hrun' = [hrun EXCEPT !.active = FALSE]
    /\ UNCHANGED <<hooks, onError, hookTrace, handled, notices>>
    /\ OnlyHooks

HookNext ==
    \/ \E ph \in HookPhases : \E does \in {"returns", "throws"} : addHook(ph, does)
    \/ \E ph \in HookPhases : addHookNotAFunction(ph)
    \/ \E ph \in HookPhases : StartRun(ph)
    \/ HookStart /\ OnlyHooks
    \/ \E i \in hrun.running : HookReturn(i) /\ OnlyHooks
    \/ \E i \in hrun.running : HookThrow(i) /\ OnlyHooks
    \/ RunDone

SpecHooks == HookInit /\ [][HookNext]_vars

\* The events of the r-th runHooks call, and the callbacks it started.
RunEvents(r) == SelectSeq(hookTrace, LAMBDA e : e.run = r)

RunStarts(r) == SelectSeq(RunEvents(r), LAMBDA e : e.ev = "start")

\* hooks[ph] at the next state begins with hooks[ph] of this one.
GrowsOnly(ph) ==
    /\ Len(hooks'[ph]) >= Len(hooks[ph])
    /\ SubSeq(hooks'[ph], 1, Len(hooks[ph])) = hooks[ph]

\* C13: in every runHooks call the callbacks are started in the order of
\* their registration, each one only after the one before it has completed;
\* the registry only grows, and a step that changes it is an addHook: it
\* registers one callback and is no step of a running call.
C13_HooksInOrderOneByOne ==
    /\ [](\A r \in DOMAIN hookRuns :
            /\ \A k \in DOMAIN RunEvents(r) :
                  IF k % 2 = 1
                  THEN RunEvents(r)[k].ev = "start"
                  ELSE /\ RunEvents(r)[k].ev \in {"end", "threw"}
                       /\ RunEvents(r)[k].id = RunEvents(r)[k - 1].id
            /\ \A k \in DOMAIN RunStarts(r) :
                  /\ k <= Len(hooks[RunStarts(r)[k].phase])
                  /\ RunStarts(r)[k].id = hooks[RunStarts(r)[k].phase][k].id)
    /\ [][/\ \A ph \in HookPhases : GrowsOnly(ph)
          /\ hooks' # hooks =>
                /\ RegisteredCount' = RegisteredCount + 1
                /\ UNCHANGED <<hrun, hookTrace, handled, notices, hookRuns>>]_vars

\* A call has run the two callbacks of its phase to their end, the first
\* registered before the second.
C13_Witness ==
    /\ hookRuns # <<>>
    /\ hookRuns[1] = "resolved"
    /\ Len(RunEvents(1)) = 4
    /\ hookTrace[1].id = 1 /\ hookTrace[3].id = 2
    /\ hookTrace[2].ev = "end"

\* The callbacks that failed, in order.
Threw == SelectSeq(hookTrace, LAMBDA e : e.ev = "threw")

MaxStages == 2

\* What a middleware stage does with next: return its result, await it and
\* return nothing, or return a value of its own without calling it.
StageKinds == {"returnsNext", "awaitsNext", "short"}

Stacks == UNION {[1..n -> StageKinds] : n \in 0..MaxStages}

\* Registries: nothing registered; one callback in every phase, returning or
\* throwing; two callbacks around the request.
PhaseNo(ph) ==
    CASE ph = "onAction" -> 1
      [] ph = "beforeRequest" -> 2
      [] ph = "afterResponse" -> 3
      [] ph = "beforeSettle" -> 4
      [] ph = "afterSettle" -> 5

HookSetups ==
    { [ph \in HookPhases |-> <<>>],
      [ph \in HookPhases |-> <<Callback(PhaseNo(ph), "returns")>>],
      [ph \in HookPhases |-> <<Callback(PhaseNo(ph), "throws")>>],
      [ph \in HookPhases |->
          IF ph \in {"beforeRequest", "afterResponse"}
          THEN <<Callback(2 * PhaseNo(ph), "throws"), Callback(2 * PhaseNo(ph) + 1, "returns")>>
          ELSE <<>>] }

\* The element: whether its url and target are usable, its x-push-state,
\* x-swap, x-retry and x-on-error (naming a function of window or not), whether
\* x-indicator finds an element and x-loading-class is given; and whether an
\* earlier request has left a response in this.lastResponse. "badParams" is a
\* usable url and target with an x-params that is not JSON.
Configs == {"ok", "noUrl", "noTarget", "noId", "badParams"}

ActInit ==
    /\ \E cfg \in Configs : \E push \in {None, "false"} : \E sw \in {None, "outerHTML"} :
       \E attr \in BOOLEAN : \E ind \in BOOLEAN : \E cls \in BOOLEAN :
       \E slot \in {"empty", "earlier"} :
           act = [NoAction EXCEPT !.pc = "idle", !.cfg = cfg, !.pushState = push,
                                  !.swap = sw, !.retry = IF sw = None THEN NotANumber ELSE IntAttr(3),
                                  !.onErrorAttr = attr, !.indicator = ind,
                                  !.loadingClass = cls,
                                  !.slot0 = slot, !.slot = slot]
    /\ middleware \in Stacks
    /\ hooks \in HookSetups
    /\ onError \in BOOLEAN
    /\ hrun = NoRun
    /\ hookTrace = <<>>
    /\ handled = <<>>
    /\ notices = 0
    /\ hookRuns = <<>>
    /\ pushed = <<>>
    /\ shown = Hidden
    /\ CoreIdle
    /\ DebIdle
    /\ DomIdle
    /\ InhIdle
    /\ SseIdle
    /\ HdrIdle

OnlyAct == UNCHANGED <<coreVars, debVars, domVars, inhVars, sseVars, hdrVars>>

\* A step of the execution in the log.
Step(ev, id) == [ev |-> ev, run |-> 0, phase |-> None, id |-> id]

\* await this.runHooks(hookName, context): the call begins.
BeginRun(ph) ==
    /\ hrun' = [active |-> TRUE, phase |-> ph, idx |-> 0, running |-> {},
                target |-> ph \in {"onAction", "afterSettle"}, rejected |-> FALSE]
    /\ hookRuns' = Append(hookRuns, "pending")

\* A slip in prepareRequestParams: the identifier of the target is not asked
\* for.
prepareRequestParamsNoIdCheck(cfg) ==
    CASE cfg = "noUrl" -> "No URL specified"
      [] cfg = "noTarget" -> "No element found"
      [] OTHER -> None

\* prepareRequestParams: the error it throws, None when it returns the
\* parameters.
prepareRequestParams(cfg) ==
    CASE cfg = "noUrl" -> "No URL specified"
      [] cfg = "noTarget" -> "No element found"
      [] cfg = "noId" -> "Target element does not have an 'id'"
      [] OTHER -> None

\* extractRequestParams: JSON.parse(xParams) throws inside its try block.
ParamsMalformed(cfg) == cfg = "badParams"

\* const maxRetries = parseInt(retryValue, 10) || 1
ActionMaxRetries(retry) == IF retry.kind = "nan" \/ retry.val = 0 THEN 1 ELSE retry.val

\* The listener's call this.handleAction(event, element).catch(error =>
\* this.handleError(error, element)): the attributes are read and
\* prepareRequestParams either throws, which rejects handleAction, or the
\* onAction hooks begin. An x-params that is not JSON is given to handleError
\* with the target by extractRequestParams, which goes on with an empty
\* paramsObject.
handleAction ==
    /\ act.pc = "idle"
    /\ IF prepareRequestParams(act.cfg) # None
       THEN /\ act' = [act EXCEPT !.pc = "done", !.failure = "config"]
            /\ handleError(FALSE, 0)
            /\ UNCHANGED <<hrun, hookRuns>>
       ELSE /\ act' = [act EXCEPT !.pc = "onAction"]
            /\ BeginRun("onAction")
            /\ IF ParamsMalformed(act.cfg)
               THEN handleError(TRUE, -1)
               ELSE UNCHANGED <<handled, notices>>
    /\ UNCHANGED <<hooks, onError, hookTrace, middleware, pushed, shown>>
    /\ OnlyAct

\* Where the execution goes on when the awaited runHooks has resolved.
AfterPhase(ph) ==
    CASE ph = "onAction" -> "show"
      [] ph = "beforeRequest" -> "middleware"
      [] ph = "afterResponse" -> "text"
      [] ph = "afterSettle" -> "push"

\* The awaited runHooks call resolves.
EndPhase ==
    /\ act.pc \in HookPhases
    /\ hrun.phase = act.pc
    /\ HooksOver
    /\ hrun' = [hrun EXCEPT !.active = FALSE]
    /\ hookRuns' = [hookRuns EXCEPT ![Len(hookRuns)] =
                        IF hrun.rejected THEN "rejected" ELSE "resolved"]
    /\ act' = [act EXCEPT !.pc = AfterPhase(act.pc)]
    /\ UNCHANGED <<hooks, onError, hookTrace, handled, notices, middleware, pushed, shown>>
    /\ OnlyAct

\* The head of the try block: the indicator is shown, the loading class
\* added, beforeSend dispatched and performRequest called, which begins with
\* the beforeRequest hooks.
ShowAndSend ==
    /\ act.pc = "show"
    /\ shown' = [indicator |-> act.indicator, loadingClass |-> act.loadingClass]
    /\ hookTrace' = Append(hookTrace, Step("beforeSend", 0))
    /\ BeginRun("beforeRequest")
    /\ act' = [act EXCEPT !.pc = "beforeRequest"]
    /\ UNCHANGED <<hooks, onError, handled, notices, middleware, pushed>>
    /\ OnlyAct

\* runner(): with the stack empty the final handler, else the next stage is
\* shifted off the stack and called with runner as its next.
Runner ==
    /\ act.pc = "middleware"
    /\ IF act.depth = Len(middleware)
       THEN /\ act' = [act EXCEPT !.pc = "core"]
            /\ hookTrace' = Append(hookTrace, Step("finalHandler", 0))
       ELSE /\ act' = [act EXCEPT !.pc = "stage", !.depth = @ + 1,
                                  !.frames = Append(@, act.depth + 1)]
            /\ hookTrace' = Append(hookTrace, Step("stage", act.depth + 1))
    /\ UNCHANGED <<hooks, onError, hrun, handled, notices, hookRuns, middleware, pushed, shown>>
    /\ OnlyAct

\* The stage that was called last.
Top == act.frames[Len(act.frames)]

Pop(frames) == SubSeq(frames, 1, Len(frames) - 1)

\* The stage calls next().
StageCallsNext ==
    /\ act.pc = "stage"
    /\ middleware[Top] # "short"
    /\ act' = [act EXCEPT !.pc = "middleware"]
    /\ hookTrace' = Append(hookTrace, Step("next", Top))
    /\ UNCHANGED <<hooks, onError, hrun, handled, notices, hookRuns, middleware, pushed, shown>>
    /\ OnlyAct

\* The stage returns a value of its own without calling next.
StageShort ==
    /\ act.pc = "stage"
    /\ middleware[Top] = "short"
    /\ act' = [act EXCEPT !.pc = "unwind", !.frames = Pop(@), !.shortAt = Top,
                          !.result = "own"]
    /\ hookTrace' = Append(hookTrace, Step("stageEnd", Top))
    /\ UNCHANGED <<hooks, onError, hrun, handled, notices, hookRuns, middleware, pushed, shown>>
    /\ OnlyAct

\* A slip in the final handler: the afterResponse hooks are run whatever
\* performRequestCore did.
AfterCoreAlways(outcome) == "afterResponse"

\* The final handler after performRequestCore: a failure is thrown on, a
\* response is stored and the afterResponse hooks are run.
AfterCore(outcome) == IF outcome = "ok" THEN "afterResponse" ELSE "unwind"

\* The final handler: performRequestCore answers, fails for good or times
\* out.
Core ==
    /\ act.pc = "core"
    /\ \E outcome \in {"ok", "transport", "timeout"} :
          /\ IF outcome = "ok"
             THEN /\ act' = [act EXCEPT !.pc = AfterCore(outcome), !.coreCalls = @ + 1,
                                        !.slot = "own"]
                  /\ hookTrace' = hookTrace \o <<Step("core", 0), Step("stored", 0)>>
             ELSE /\ act' = [act EXCEPT !.pc = AfterCore(outcome), !.coreCalls = @ + 1,
                                        !.result = "throw", !.failure = outcome]
                  /\ hookTrace' = hookTrace \o <<Step("core", 0), Step("failed", 0)>>
          /\ IF AfterCore(outcome) = "afterResponse"
             THEN BeginRun("afterResponse")
             ELSE UNCHANGED <<hrun, hookRuns>>
    /\ UNCHANGED <<hooks, onError, handled, notices, middleware, pushed, shown>>
    /\ OnlyAct

\* return response.text(), or the failure thrown on after the hooks of a
\* request that had failed.
ReturnText ==
    /\ act.pc = "text"
    /\ act' = [act EXCEPT !.pc = "unwind",
                          !.result = IF act.failure = None THEN "text" ELSE "throw"]
    /\ hookTrace' = Append(hookTrace, Step("text", 0))
    /\ UNCHANGED <<hooks, onError, hrun, handled, notices, hookRuns, middleware, pushed, shown>>
    /\ OnlyAct

\* A slip in a stage: what next returned is dropped by every stage.
StageReturnDropsValue(kind, below) == IF below = "throw" THEN "throw" ELSE "undefined"

\* What a stage that called next gives back to its own caller.
StageReturn(kind, below) ==
    IF below = "throw" THEN "throw"
    ELSE IF kind = "returnsNext" THEN below
    ELSE "undefined"

\* next() has settled in the stage that called it, and the stage ends.
Unwind ==
    /\ act.pc = "unwind"
    /\ act.frames # <<>>
    /\ act' = [act EXCEPT !.frames = Pop(@),
                          !.result = StageReturn(middleware[Top], act.result)]
    /\ hookTrace' = Append(hookTrace, Step("stageEnd", Top))
    /\ UNCHANGED <<hooks, onError, hrun, handled, notices, hookRuns, middleware, pushed, shown>>
    /\ OnlyAct

\* performRequest settles in handleAction: a failure goes to the catch block,
\* a value is the response text given to processResponse after afterReceive.
Returned ==
    /\ act.pc = "unwind"
    /\ act.frames = <<>>
    /\ act' = [act EXCEPT !.pc = IF act.result = "throw" THEN "catch" ELSE "process"]
    /\ hookTrace' = Append(hookTrace, Step("returned", 0))
    /\ UNCHANGED <<hooks, onError, hrun, handled, notices, hookRuns, middleware, pushed, shown>>
    /\ OnlyAct

\* processResponse up to the headers: beforeUpdate is dispatched, and reading
\* this.lastResponse.headers throws when no response was ever stored.
BeforeUpdate ==
    /\ act.pc = "process"
    /\ hookTrace' = Append(hookTrace, Step("beforeUpdate", 0))
    /\ act' = IF act.slot = "empty"
              THEN [act EXCEPT !.pc = "catch", !.failure = "reconciliation"]
              ELSE [act EXCEPT !.pc = "swap"]
    /\ UNCHANGED <<hooks, onError, hrun, handled, notices, hookRuns, middleware, pushed, shown>>
    /\ OnlyAct

\* A slip in processResponse: the afterSettle hooks are run right after the
\* step at hand.
SettlesAtOnce(step) == "afterSettle"

\* The order of processResponse from performSwap on: the swap and afterUpdate,
\* the scan of the target and the out-of-band swaps, the response events and
\* the stop of the infinite scroll, the afterSettle hooks.
AfterStep(step) ==
    CASE step = "swap" -> "rescan"
      [] step = "rescan" -> "events"
      [] step = "events" -> "afterSettle"

\* The step that is over goes on to the next one; runHooks('afterSettle') is
\* called after the last.
GoOn(step) ==
    IF AfterStep(step) = "afterSettle"
    THEN BeginRun("afterSettle")
    ELSE UNCHANGED <<hrun, hookRuns>>

\* performSwap on the final target throws, or the swap is made and afterUpdate
\* dispatched.
PrimarySwap ==
    /\ act.pc = "swap"
    /\ \E ok \in BOOLEAN :
          IF ok
          THEN /\ act' = [act EXCEPT !.pc = AfterStep("swap"), !.swapped = TRUE]
               /\ hookTrace' = hookTrace \o <<Step("swap", 0), Step("afterUpdate", 0)>>
               /\ GoOn("swap")
          ELSE /\ act' = [act EXCEPT !.pc = "catch", !.failure = "reconciliation"]
               /\ UNCHANGED <<hookTrace, hrun, hookRuns>>
    /\ UNCHANGED <<hooks, onError, handled, notices, middleware, pushed, shown>>
    /\ OnlyAct

\* scanForElements(finalTargetElement), then handleOobSwapping, a swap of which
\* may throw.
RescanAndOob ==
    /\ act.pc = "rescan"
    /\ \E ok \in BOOLEAN :
          IF ok
          THEN /\ act' = [act EXCEPT !.pc = AfterStep("rescan")]
               /\ hookTrace' = hookTrace \o <<Step("scan", 0), Step("oob", 0)>>
               /\ GoOn("rescan")
          ELSE /\ act' = [act EXCEPT !.pc = "catch", !.failure = "reconciliation"]
               /\ hookTrace' = Append(hookTrace, Step("scan", 0))
               /\ UNCHANGED <<hrun, hookRuns>>
    /\ UNCHANGED <<hooks, onError, handled, notices, middleware, pushed, shown>>
    /\ OnlyAct

\* await this.handleResponseEvents(), then stopInfiniteScroll when the
\* response says 'stop' and the element has x-infinite-scroll.
EventsAndStop ==
    /\ act.pc = "events"
    /\ \E stop \in BOOLEAN :
          hookTrace' = hookTrace \o <<Step("events", 0)>>
                                 \o (IF stop THEN <<Step("stop", 0)>> ELSE <<>>)
    /\ act' = [act EXCEPT !.pc = AfterStep("events")]
    /\ GoOn("events")
    /\ UNCHANGED <<hooks, onError, handled, notices, middleware, pushed, shown>>
    /\ OnlyAct

\* A slip beside shouldPushState: only an explicit 'true' pushes.
ShouldPushStateIfTrue(v) == v = "true"

\* const shouldPushState = ...(element, 'x-push-state') !== 'false'
ShouldPushState(v) == v # "false"

\* The state handed to history.pushState.
PushedState ==
    [xPartial |-> TRUE, partialId |-> "target", url |-> "/url",
     swapOption |-> IF act.swap # None THEN act.swap ELSE defaultSwapOption,
     maxRetries |-> ActionMaxRetries(act.retry)]

\* After processResponse: history.pushState unless x-push-state is 'false'.
PushState ==
    /\ act.pc = "push"
    /\ pushed' = IF ShouldPushState(act.pushState) THEN Append(pushed, PushedState)
                 ELSE pushed
    /\ act' = [act EXCEPT !.pc = "finally"]
    /\ UNCHANGED <<hookVars, middleware, shown>>
    /\ OnlyAct

\* The catch block of handleAction: the function x-on-error names, else
\* this.onError, else console.error and the notice written into the target.
CatchBlock ==
    /\ act.pc = "catch"
    /\ handled' = Append(handled,
                         [by |-> IF act.onErrorAttr THEN "attr"
                                 ELSE IF onError THEN "onError" ELSE "builtin",
                          source |-> 0,
                          notice |-> ~act.onErrorAttr /\ ~onError])
    /\ notices' = IF ~act.onErrorAttr /\ ~onError THEN notices + 1 ELSE notices
    /\ act' = [act EXCEPT !.pc = "finally"]
    /\ UNCHANGED <<hooks, onError, hrun, hookTrace, hookRuns, middleware, pushed, shown>>
    /\ OnlyAct

\* A slip in the cleanup: made after the try block instead of in a finally,
\* it is skipped when the catch block was entered.
CleanupUnlessFailed(failure) ==
    IF failure = None THEN Hidden ELSE shown

\* The finally block: the indicator hidden, the loading class removed.
Cleanup(failure) == Hidden

Finally ==
    /\ act.pc = "finally"
    /\ shown' = Cleanup(act.failure)
    /\ act' = [act EXCEPT !.pc = "done"]
    /\ UNCHANGED <<hookVars, middleware, pushed>>
    /\ OnlyAct

ActNext ==
    \/ handleAction
    \/ HookStart /\ OnlyHooks
    \/ \E i \in hrun.running : HookReturn(i) /\ OnlyHooks
    \/ \E i \in hrun.running : HookThrow(i) /\ OnlyHooks
    \/ EndPhase
    \/ ShowAndSend
    \/ Runner
    \/ StageCallsNext
    \/ StageShort
    \/ Core
    \/ ReturnText
    \/ Unwind
    \/ Returned
    \/ BeforeUpdate
    \/ PrimarySwap
    \/ RescanAndOob
    \/ EventsAndStop
    \/ PushState
    \/ CatchBlock
    \/ Finally

SpecAction == ActInit /\ [][ActNext]_vars

\* ------------------------------------------------ properties of an execution

\* Where in the log a step, or a callback of a phase, stands.
At(ev) == {k \in DOMAIN hookTrace : hookTrace[k].ev = ev}

OfPhase(ph) == {k \in DOMAIN hookTrace : hookTrace[k].phase = ph}

AllBefore(A, B) == \A a \in A : \A b \in B : a < b

\* C11: an execution that ends with its request and its reconciliation
\* succeeded has pushed exactly one history entry, with the marker, the id of
\* the target, the url, the swap strategy and maxRetries, unless x-push-state
\* of the element is 'false'; an execution that failed, at whatever step, has
\* pushed none, and none is pushed before the reconciliation is over.
C11_OnePushPerSuccess ==
    /\ act.pc = "done" =>
          pushed = IF act.failure = None /\ act.pushState # "false"
                   THEN << [xPartial |-> TRUE, partialId |-> "target", url |-> "/url",
                            swapOption |-> IF act.swap = None THEN "innerHTML" ELSE act.swap,
                            maxRetries |-> IF act.retry.kind = "int" THEN act.retry.val ELSE 1] >>
                   ELSE <<>>
    /\ act.failure # None => pushed = <<>>
    /\ pushed # <<>> => act.swapped /\ hookRuns[Len(hookRuns)] = "resolved"

\* An execution with x-swap and x-retry on the element has ended with its
\* entry pushed, after a request that went through the network.
C11_Witness ==
    /\ act.pc = "done"
    /\ act.failure = None
    /\ act.swap = "outerHTML"
    /\ act.coreCalls = 1
    /\ Len(pushed) = 1

\* The stages that have been called, in the order of their calls.
StagesCalled == SelectSeq(hookTrace, LAMBDA e : e.ev = "stage")

\* What the short-circuit of a stage leaves undone: no later stage is called,
\* the final handler with its network call is not run, this.lastResponse is
\* not written.
ShortCircuitStops ==
    act.shortAt # 0 =>
        /\ Len(StagesCalled) = act.shortAt
        /\ At("finalHandler") = {} /\ At("core") = {}
        /\ act.coreCalls = 0
        /\ act.slot = act.slot0
        /\ OfPhase("afterResponse") = {}

\* The stages are called in the order of their registration, each one by the
\* next() of the stage before it.
StagesInOrder ==
    /\ \A k \in DOMAIN StagesCalled : StagesCalled[k].id = k
    /\ \A k \in At("stage") :
          hookTrace[k].id > 1 => hookTrace[k - 1] = Step("next", hookTrace[k].id - 1)
    /\ \A k \in At("finalHandler") :
          middleware # <<>> => hookTrace[k - 1] = Step("next", Len(middleware))

\* C15 as stated: the value of the stage that returned without calling next is
\* the result of performRequest.
C15_ShortCircuitValueIsTheResult ==
    /\ StagesInOrder
    /\ ShortCircuitStops
    /\ (act.shortAt # 0 /\ At("returned") # {}) => act.result = "own"

\* C15: the stages run in the order of their registration, each called by
\* the next() of the one before; when a stage returns without calling next,
\* no later stage and no network call runs and this.lastResponse is not
\* written; its value goes to the stage that called it, and it is the result
\* of performRequest when every stage before it returns what its next()
\* returned, and undefined when one of them does not.
C15_ShortCircuitValueGoesToCaller ==
    /\ StagesInOrder
    /\ ShortCircuitStops
    /\ (act.shortAt # 0 /\ At("returned") # {}) =>
          act.result = IF \A j \in 1..(act.shortAt - 1) : middleware[j] = "returnsNext"
                       THEN "own" ELSE "undefined"

\* performRequest has returned the value of the second stage, which did not
\* call next, through a first stage that returns what next() returned.
C15_Witness ==
    /\ middleware = <<"returnsNext", "short">>
    /\ act.shortAt = 2
    /\ At("returned") # {}
    /\ act.result = "own"

\* C16: in a performRequest every beforeRequest hook has completed before the
\* first stage, or the final handler, starts; the afterResponse hooks run
\* after the response was obtained and stored and all of them have completed
\* before the text is returned; they do not run when the request failed.
C16_HooksAroundTheRequest ==
    /\ AllBefore(OfPhase("beforeRequest"), At("stage") \cup At("finalHandler") \cup At("core"))
    /\ At("stage") \cup At("finalHandler") # {} =>
          Len(RunEvents(2)) = 2 * Len(hooks["beforeRequest"])
    /\ OfPhase("afterResponse") # {} => At("stored") # {}
    /\ AllBefore(At("stored"), OfPhase("afterResponse"))
    /\ AllBefore(OfPhase("afterResponse"), At("text") \cup At("returned"))
    /\ At("text") # {} =>
          Cardinality(OfPhase("afterResponse")) = 2 * Len(hooks["afterResponse"])
    /\ At("failed") # {} => OfPhase("afterResponse") = {} /\ At("text") = {}

\* A request through two stages has returned its text with two callbacks
\* registered in both phases.
C16_Witness ==
    /\ Len(hooks["beforeRequest"]) = 2
    /\ Len(hooks["afterResponse"]) = 2
    /\ Len(middleware) = 2
    /\ At("returned") # {}
    /\ act.result = "text"
    /\ Cardinality(OfPhase("afterResponse")) = 4

\* C17 as stated: in a successful reconciliation with callbacks registered for
\* beforeSettle and afterSettle, beforeUpdate, the swap, afterUpdate, a
\* beforeSettle callback and the afterSettle callbacks come in this order.
C17_FourPhasesInOrder ==
    (/\ act.swapped
     /\ act.pc \in {"push", "finally", "done"}
     /\ hooks["beforeSettle"] # <<>>
     /\ hooks["afterSettle"] # <<>>) =>
        /\ At("beforeUpdate") # {} /\ At("afterUpdate") # {}
        /\ OfPhase("beforeSettle") # {} /\ OfPhase("afterSettle") # {}
        /\ AllBefore(At("beforeUpdate"), At("swap"))
        /\ AllBefore(At("swap"), At("afterUpdate"))
        /\ AllBefore(At("afterUpdate"), OfPhase("beforeSettle"))
        /\ AllBefore(OfPhase("beforeSettle"), OfPhase("afterSettle"))

\* C18: when an execution has ended, the indicator is hidden and the loading
\* class is off the target, however it ended; neither is shown before the try
\* block is entered.
C18_LoadingStateCleared ==
    /\ act.pc = "done" => ~shown.indicator /\ ~shown.loadingClass
    /\ (shown.indicator \/ shown.loadingClass) => At("beforeSend") # {}

\* An execution that showed the indicator and the loading class has ended
\* after its reconciliation threw.
C18_Witness ==
    /\ act.pc = "done"
    /\ act.indicator /\ act.loadingClass
    /\ At("beforeSend") # {}
    /\ act.failure = "reconciliation"
    /\ act.coreCalls = 1

\* The deliveries of the failure of the execution itself.
OwnFailures == SelectSeq(handled, LAMBDA h : h.source = 0)

\* C19 as stated: the failure of an execution is delivered to exactly one
\* handler: the function x-on-error names, else this.onError, else the
\* fallback, which writes the notice into the target.
C19_OneHandlerInOrder ==
    (act.pc = "done" /\ act.failure # None) =>
        /\ Len(OwnFailures) = 1
        /\ OwnFailures[1].by = IF act.onErrorAttr THEN "attr"
                               ELSE IF onError THEN "onError" ELSE "builtin"
        /\ OwnFailures[1].by = "builtin" => OwnFailures[1].notice

C21_MalformedParamsAbort ==
    act.cfg = "badParams" =>
        /\ act.pc # "idle" => handled # <<>> /\ handled[1].source = -1
        /\ act.coreCalls = 0
        /\ ~act.swapped

\* C29: runHooks('afterSettle') is called, and its callbacks start, only when
\* the primary swap, the scan of the new content, the out-of-band swaps, the
\* events of the response headers and the stop of the infinite scroll are
\* over, in this order.
C29_AfterSettleComesLast ==
    (act.pc = "afterSettle" \/ OfPhase("afterSettle") # {}) =>
        /\ At("swap") # {} /\ At("scan") # {} /\ At("oob") # {} /\ At("events") # {}
        /\ AllBefore(At("swap"), At("scan"))
        /\ AllBefore(At("scan"), At("oob"))
        /\ AllBefore(At("oob"), At("events"))
        /\ AllBefore(At("events"), At("stop"))
        /\ AllBefore(At("swap") \cup At("scan") \cup At("oob") \cup At("events") \cup At("stop"),
                     OfPhase("afterSettle"))

\* An afterSettle callback has run after a reconciliation that stopped the
\* infinite scroll.
C29_Witness ==
    /\ At("stop") # {}
    /\ OfPhase("afterSettle") # {}
    /\ act.pc = "done"
    /\ act.failure = None

\* ------------------------------------- the retry count of a triggered action
\* handleAction hands parseInt(x-retry) || 1 to performRequestCore as
\* maxRetries; the attribute is the element's own or an inherited one, absent
\* or an integer, -1 included.

RetryInit ==
    /\ \E r \in {NotANumber} \cup {IntAttr(n) : n \in -1..MaxRetries} :
          act = [NoAction EXCEPT !.retry = r]
    /\ maxRetries = ActionMaxRetries(act.retry)
    /\ pc = "loop"
    /\ timeout \in {0, 1}
    /\ attempts = 0
    /\ armed = {}
    /\ aborted = FALSE
    /\ netCalls = 0
    /\ hist = <<>>
    /\ error = "none"
    /\ middleware = <<>>
    /\ pushed = <<>>
    /\ shown = Hidden
    /\ DebIdle
    /\ DomIdle
    /\ InhIdle
    /\ SseIdle
    /\ HdrIdle
    /\ HookIdle

SpecRetry == RetryInit /\ [][CoreNext]_vars

\* C26 as stated: with x-retry an integer r >= 0, r = 0 included, an
\* interaction whose every attempt fails has made exactly r+1 network calls
\* when it gives up.
C26_AttemptsAreRetryPlusOne ==
    (act.retry.kind = "int" /\ act.retry.val >= 0 /\ AllAttemptsFailed /\ pc = "thrown") =>
        netCalls = act.retry.val + 1

\* The error each way of failing leaves.
ErrorOf(how) ==
    CASE how = "http" -> "HTTP error"
      [] how = "net" -> "network error"
      [] how = "abort" -> "Request timed out"

\* C28: a call of performRequestCore that has ended has returned the response
\* of a successful attempt or thrown an error; the error thrown after failed
\* attempts is the error of the last attempt made; the throw behind the loop is
\* reached only by a call whose maxRetries is negative, which makes no attempt;
\* and a call that has not ended can always go on.
C28_EndsByReturnOrThrow ==
    /\ pc = "returned" => hist # <<>> /\ hist[Len(hist)] = "ok" /\ error = "none"
    /\ pc = "thrown" => error # "none"
    /\ (pc = "thrown" /\ hist # <<>>) => error = ErrorOf(hist[Len(hist)])
    /\ error = "No response returned" => maxRetries < 0 /\ netCalls = 0
    /\ pc \notin {"returned", "thrown"} => ENABLED CoreNext

\* Every attempt failed, the first on an HTTP error and the last on a network
\* error, which is the error thrown.
C28_Witness ==
    /\ pc = "thrown"
    /\ Len(hist) = maxRetries + 1
    /\ Len(hist) >= 2
    /\ hist[1] = "http"
    /\ hist[Len(hist)] = "net"
    /\ error = "network error"

\* -------------------------------------- more properties of the document

\* The loads of container c that are in flight.
LoadsInFlight(c) == {i \in inflight : i.kind = "scroll" /\ i.element = c}

\* C23: a scroll container has at most one load in flight, and while a load
\* is in flight nothing observes its sentinel, so that no intersection can
\* start another before the load is reconciled and the container armed anew.
C23_OneLoadInFlight ==
    \A c \in DOMAIN dom :
        /\ Cardinality(LoadsInFlight(c)) <= 1
        /\ LoadsInFlight(c) # {} => dom[c].observing = {}

\* The second load of a container is in flight, the first one reconciled.
C23_Witness ==
    /\ Len(loads) >= 2
    /\ loads[1] = loads[2]
    /\ LoadsInFlight(loads[1]) # {}

\* C25: no element has more than one trigger listener, and an element that
\* has one is an action element marked as initialized.
C25_OneListenerPerElement ==
    \A n \in DOMAIN dom :
        /\ dom[n].listeners <= 1
        /\ dom[n].listeners = 1 => dom[n].inited /\ dom[n].kind = "action"
        /\ (dom[n].kind = "action" /\ dom[n].inited) => dom[n].listeners = 1

\* An action element inside the primary target was there before and after a
\* completed reconciliation, which scanned the target again, and holds its one
\* listener.
C25_Witness ==
    /\ Reconciled
    /\ recon.swaps[1].target # Window
    /\ \E n \in DOMAIN recon.before :
          /\ recon.before[n].listeners = 1
          /\ n \in Range(Descendants(recon.before, recon.swaps[1].target))
          /\ n \in Range(Descendants(dom, recon.swaps[1].target))
          /\ dom[n].listeners = 1

\* ------------------------------------ reconciliations of richer responses
\* The page of SpecDom with its action elements, answered by responses that
\* bring declarative elements under each swap strategy, and by one whose
\* out-of-band fragments cannot all be placed.

Nested == Plain(None, <<Elem(None, "action", "a", None, None, <<>>)>>)

Stream == Elem(None, "sse", None, None, None, <<>>)

\* Fragments without identifier, with an identifier no node has, and one for
\* the element "a".
Unplaceable == <<Oob(None, "innerHTML", <<>>), Oob("zz", "outerHTML", <<>>)>>

Placeable == Oob("a", "innerHTML", <<Elem(None, "action", "a", None, None, <<>>)>>)

ReconResponses ==
    { Response(<<Nested, Stream>>, None, option, None) : option \in SwapOptions }
    \cup { Response(Unplaceable \o <<Placeable, Plain(None, <<>>)>>, None, None, None) }

ReconNext ==
    \/ \E el \in DOMAIN dom : TriggerAction(el)
    \/ \E i \in inflight : \E r \in ReconResponses : Respond(i, r)
    \/ \E i \in inflight : Fail(i)
    \/ \E i \in inflight : Settle(i)

SpecRecon == DomInit /\ [][ReconNext]_vars

\* C24 as stated: after a completed reconciliation under one of the six
\* strategies, every action or server-push element the primary swap brought
\* into the document is activated.
C24_NewContentActivated ==
    (Reconciled /\ recon.oobLog = <<>> /\ recon.swaps[1].option \in SwapOptions) =>
        \A n \in DOMAIN dom \ DOMAIN recon.before :
            InDocument(dom, n) =>
                /\ dom[n].kind = "action" => dom[n].listeners = 1
                /\ dom[n].kind = "sse" => dom[n].sseInit

\* The state handleOobSwapping starts from in document d.
OobStart(d) == [dom |-> d, threw |-> FALSE, swaps |-> <<>>, oobLog |-> <<>>, errors |-> <<>>]

\* C30: every fragment without identifier or without a node of its identifier
\* is reported and skipped, every other fragment of the response is swapped
\* in, a reconciliation in which no swap threw goes on to the afterSettle
\* hooks; and in any document the fragments that cannot be placed leave it
\* unchanged and the fragment that follows them is applied as if they were
\* not there.
C30_UnplaceableFragmentSkipped ==
    /\ [](recon.no # 0 =>
            /\ Len(SelectSeq(recon.errors, LAMBDA x : x = "oob"))
                  = Len(recon.oobLog) - Len(MatchedOob)
            /\ Len(OobSwaps) = Len(MatchedOob)
            /\ (Len(recon.swaps) = 1 /\ ~recon.threw) =>
                  [k \in DOMAIN recon.oobLog |-> recon.oobLog[k].id] = MarkedIds(recon.text))
    /\ [](/\ handleOobSwapping(OobStart(dom), Unplaceable).dom = dom
          /\ handleOobSwapping(OobStart(dom), Unplaceable \o <<Placeable>>).dom
                = handleOobSwapping(OobStart(dom), <<Placeable>>).dom)
    /\ [][(recon' # recon /\ ~recon'.threw) => hookLog' = Append(hookLog, "afterSettle")]_vars

\* A reconciliation has skipped two fragments, placed the third and completed.
C30_Witness ==
    /\ Reconciled
    /\ Len(recon.oobLog) = 3
    /\ recon.oobLog[1].existing = NoNode
    /\ recon.oobLog[2].existing = NoNode
    /\ recon.oobLog[3].existing # NoNode
    /\ Len(OobSwaps) = 1
    /\ Len(recon.errors) = 2

\* ------------------------------------------- descriptors of replayed requests
\* A page whose region "p" and scroll container "s" name the element "q" as
\* their target; "q" is an action element that targets itself with
\* x-swap="outerHTML", so that its own swap can take the node with that id
\* out of the document.
ReplayMarkup ==
    << Elem("q", "action", None, "outerHTML", None, <<>>),
       Elem("p", "plain", "q", None, None, <<>>),
       Elem("s", "scroll", "q", "beforeend", None, <<>>) >>

ReplayDocument ==
    With(AddForest((Body :> NewNode(Elem(None, "body", None, None, None, <<>>), <<>>)),
                   ReplayMarkup), LAMBDA parsed :
         scanForElements([parsed.dom EXCEPT ![Body].kids = parsed.roots], Body))

ReplayStates ==
    { HistoryState(FALSE, FALSE, None, None, None),
      HistoryState(TRUE, TRUE, "p", "/u", None),
      HistoryState(TRUE, TRUE, "q", "/u", None) }

ReplayResponses ==
    { Response(<<Plain(None, <<>>)>>, None, None, None),
      Response(<<Plain("q", <<>>)>>, None, None, None) }

ReplayInit ==
    /\ dom = ReplayDocument
    /\ lastResponse = NoResponse
    /\ inflight = {}
    /\ recon = NoRecon
    /\ loads = <<>>
    /\ reloads = 0
    /\ requests = 0
    /\ hookLog = <<>>
    /\ popped = <<>>
    /\ lastSwap = NoSwap
    /\ CoreIdle
    /\ DebIdle
    /\ ExtIdle

ReplayNext ==
    \/ \E el \in DOMAIN dom : TriggerAction(el)
    \/ \E c \in DOMAIN dom : \E o \in dom[c].observing : Intersect(c, o)
    \/ \E h \in ReplayStates : PopState(h)
    \/ \E i \in inflight : \E r \in ReplayResponses : Respond(i, r)
    \/ \E i \in inflight : Fail(i)
    \/ \E i \in inflight : Settle(i)

SpecReplay == ReplayInit /\ [][ReplayNext]_vars

\* The request descriptors a step hands to performRequest.
Issued == {i \in inflight' \ inflight : i.stage = "request"}

\* C27 as stated: whenever a trigger, a scroll load or a navigation replay
\* hands a descriptor to the request pipeline, its target selector resolves
\* to a node of the document and that node has an identifier.
C27_DescriptorTargetResolves ==
    [][\A i \in Issued :
          /\ GetElementById(dom, i.selector) # NoNode
          /\ dom[GetElementById(dom, i.selector)].id # None]_vars

\* ------------------------------------------- server-push elements over time
\* The element instances with an x-sse address, their EventSources and the
\* MutationObservers that watch for their leaving the document.

\* EventSources created per element in one behaviour.
MaxOpens == 2

\* setupSSEElement(element): nothing for an element marked initialized; else
\* a new EventSource, kept in sseConnections, the mark set and a new observer
\* of document.body.
setupSSEConnection(s, e) ==
    IF s.initialized[e]
    THEN s
    ELSE [s EXCEPT !.sources[e] = Append(@, "open"),
                   !.connections = @ \cup {e},
                   !.initialized[e] = TRUE,
                   !.observers[e] = @ + 1]

\* cleanupSSEElement(element): the EventSource kept for the element is
\* closed and forgotten, the mark is cleared.
cleanupSSEElement(s, e) ==
    IF e \in s.connections
    THEN [s EXCEPT !.sources[e] = [@ EXCEPT ![Len(@)] = "closed"],
                   !.connections = @ \ {e},
                   !.initialized[e] = FALSE]
    ELSE s

RECURSIVE SetupEach(_, _)
\* scanForElements: setupSSEElement for each element found, one by one.
SetupEach(s, found) ==
    IF found = {}
    THEN s
    ELSE With(CHOOSE e \in found : TRUE, LAMBDA e :
              SetupEach(setupSSEConnection(s, e), found \ {e}))

RECURSIVE ObserverCallbacks(_, _)
\* The callbacks of the observers of the elements in watched: an element no
\* longer under document.body is cleaned up and its observers disconnect.
ObserverCallbacks(s, watched) ==
    IF watched = {}
    THEN s
    ELSE With(CHOOSE e \in watched : TRUE, LAMBDA e :
              ObserverCallbacks(
                  IF s.inDocument[e]
                  THEN s
                  ELSE [cleanupSSEElement(s, e) EXCEPT !.observers[e] = 0],
                  watched \ {e}))

Opens(s, found) == {e \in found : ~s.initialized[e]}

OnlySse == UNCHANGED <<coreVars, debVars, domVars, inhVars, hookVars, actVars, hdrVars>>

\* scanForElements(document), as run at DOMContentLoaded, by refresh() and
\* after a server-push message.
ScanDocument ==
    /\ \E found \in {{e \in SseElements : sse.inDocument[e]}} :
          /\ \A e \in Opens(sse, found) : Len(sse.sources[e]) < MaxOpens
          /\ sse' = SetupEach(sse, found)
    /\ OnlySse

\* scanForElements(container) for a container that holds the element e:
\* refresh(container), or the re-scan of a swap target.
ScanContainer(e) ==
    /\ ~sse.initialized[e] => Len(sse.sources[e]) < MaxOpens
    /\ sse' = setupSSEConnection(sse, e)
    /\ OnlySse

\* A swap or a script takes the element out of the document.
LeaveDocument(e) ==
    /\ sse.inDocument[e]
    /\ sse' = [sse EXCEPT !.inDocument[e] = FALSE, !.mutated = TRUE]
    /\ OnlySse

\* The same element instance is inserted into the document again.
EnterDocument(e) ==
    /\ ~sse.inDocument[e]
    /\ sse' = [sse EXCEPT !.inDocument[e] = TRUE, !.mutated = TRUE]
    /\ OnlySse

\* The mutation records are delivered to the observers of document.body.
DeliverMutations ==
    /\ sse.mutated
    /\ sse' = [ObserverCallbacks(sse, {e \in SseElements : sse.observers[e] > 0})
                  EXCEPT !.mutated = FALSE]
    /\ OnlySse

SseInit == CoreIdle /\ DebIdle /\ DomIdle /\ ExtIdle

SseNext ==
    \/ ScanDocument
    \/ \E e \in SseElements : ScanContainer(e)
    \/ \E e \in SseElements : LeaveDocument(e)
    \/ \E e \in SseElements : EnterDocument(e)
    \/ DeliverMutations

SpecSse == SseInit /\ [][SseNext]_vars

\* The connection of e has been closed by the clean-up.
Closed(e) == sse.sources[e] # <<>> /\ sse.sources[e][Len(sse.sources[e])] = "closed"

\* C22 as stated: once the connection of a server-push element has been
\* closed because the element left the document, no step opens another
\* connection for that element instance.
C22_ClosedIsNotReopened ==
    [][\A e \in SseElements : Closed(e) => sse'.sources[e] = sse.sources[e]]_vars

\* ------------------------------------------------ the scroll container alone
\* A page with a region "t" and two scroll containers: "s" loads into itself,
\* "u" loads into "t" with x-swap="outerHTML", so that a load can take the
\* node "t" out of the document while another one is under way.
ScrollMarkup ==
    << Elem("t", "plain", None, None, None, <<>>),
       Elem("s", "scroll", None, "beforeend", None, <<>>),
       Elem("u", "scroll", "t", "outerHTML", None, <<>>) >>

ScrollDocument ==
    With(AddForest((Body :> NewNode(Elem(None, "body", None, None, None, <<>>), <<>>)),
                   ScrollMarkup), LAMBDA parsed :
         scanForElements([parsed.dom EXCEPT ![Body].kids = parsed.roots], Body))

ScrollResponses ==
    { Response(<<Plain(None, <<>>)>>, None, None, None),
      Response(<<Plain(None, <<>>)>>, "t", "outerHTML", None),
      Response(<<Plain(None, <<>>)>>, "root", None, None),
      Response(<<Plain(None, <<>>)>>, None, None, "stop") }

ScrollInit ==
    /\ dom = ScrollDocument
    /\ lastResponse = NoResponse
    /\ inflight = {}
    /\ recon = NoRecon
    /\ loads = <<>>
    /\ reloads = 0
    /\ requests = 0
    /\ hookLog = <<>>
    /\ popped = <<>>
    /\ lastSwap = NoSwap
    /\ CoreIdle
    /\ DebIdle
    /\ ExtIdle

ScrollNext ==
    \/ \E c \in DOMAIN dom : \E o \in dom[c].observing : Intersect(c, o)
    \/ \E i \in inflight : \E r \in ScrollResponses : Respond(i, r)
    \/ \E i \in inflight : Fail(i)
    \/ \E i \in inflight : Settle(i)
    \/ Refresh

SpecScroll == ScrollInit /\ [][ScrollNext]_vars

\* This step ends the load of container c with a completed reconciliation.
LoadReconciled(c) ==
    /\ \E i \in inflight \ inflight' : i.kind = "scroll" /\ i.element = c /\ i.stage = "text"
    /\ recon' # recon
    /\ recon'.element = c
    /\ ~recon'.threw

\* C32: the step that completes the reconciliation of a scroll load without
\* X-Infinite-Scroll: stop leaves the container with its sentinel and one
\* observer observing it; under the stop instruction it leaves the container
\* stopped and observed by nothing, and it is never observed again.
C32_RearmedUnlessStopped ==
    /\ [][\A c \in DOMAIN dom :
            LoadReconciled(c) =>
                IF recon'.response.xInfiniteScroll = "stop"
                THEN dom'[c].stopped /\ dom'[c].observing = {}
                ELSE /\ dom'[c].sentinel # NoNode
                     /\ dom'[c].observing = {dom'[c].observer}
                     /\ ~dom'[c].stopped]_vars
    /\ [][\A c \in DOMAIN dom :
            dom[c].stopped => dom'[c].stopped /\ dom'[c].observing = {}]_vars

\* After a completed reconciliation of its load the container has issued
\* another load.
C32_Witness ==
    /\ Len(loads) = 2
    /\ loads[1] = loads[2]
    /\ Reconciled
    /\ recon.element = loads[1]
    /\ recon.response.xInfiniteScroll # "stop"
    /\ LoadsInFlight(loads[1]) # {}

\* This step ends the load of container c in failure: the request threw, or
\* no node answers to the target selector once the response is there, or the
\* reconciliation threw.
LoadFailed(c) ==
    \E i \in inflight \ inflight' :
        /\ i.kind = "scroll"
        /\ i.element = c
        /\ \/ i.stage = "request"
           \/ i.stage = "text" /\ GetElementById(dom, i.selector) = NoNode
           \/ i.stage = "text" /\ recon' # recon /\ recon'.threw

\* The container has no observer on its sentinel and no load under way.
Unarmed(c) ==
    /\ dom[c].kind = "scroll"
    /\ dom[c].observing = {}
    /\ LoadsInFlight(c) = {}

\* C40: the step in which a scroll load fails leaves nothing observing the
\* sentinel of its container, and a container that is unarmed with no load
\* under way stays unarmed and issues no load, whatever step follows (a
\* re-scan included).
C40_FailedLoadStaysUnarmed ==
    /\ [][\A c \in DOMAIN dom : LoadFailed(c) => dom'[c].observing = {}]_vars
    /\ [][\A c \in DOMAIN dom :
            Unarmed(c) => dom'[c].observing = {} /\ ~LoadIssued(c)]_vars

\* A container whose load failed: it was loaded, is not stopped, and is
\* unarmed while its sentinel is still in the document.
C40_Witness ==
    \E c \in DOMAIN dom :
        /\ Unarmed(c)
        /\ ~dom[c].stopped
        /\ \E k \in DOMAIN loads : loads[k] = c
        /\ dom[c].sentinel # NoNode
        /\ InDocument(dom, dom[c].sentinel)

\* ------------------------------------------------- the headers of a request
\* Header objects are functions from names to values. The descriptor's
\* headers are built by getHeaders, may be changed by a beforeRequest hook or
\* a middleware stage, and are given to prepareRequestHeaders, whose result
\* goes to fetch.

CsrfName == "X-CSRF-Token"

HeaderNames == {CsrfName, "X-Action"}

\* Changes a hook or a stage makes to the descriptor's headers in one request.
MaxHeaderChanges == 2

\* Object.assign(base, top), { ...base, ...top }.
Layer(base, top) ==
    [n \in DOMAIN base \cup DOMAIN top |-> IF n \in DOMAIN top THEN top[n] ELSE base[n]]

\* this.csrfToken: null, a string, or a function of no argument.
CsrfTokens ==
    { [kind |-> "null", value |-> ""],
      [kind |-> "string", value |-> ""],
      [kind |-> "string", value |-> "tok"],
      [kind |-> "function", value |-> "tok"] }

\* if (this.csrfToken): null and the empty string are falsy.
Truthy(token) == token.kind = "function" \/ (token.kind = "string" /\ token.value # "")

\* The x-headers attribute of the element, parsed.
ElementHeaders ==
    { NoHeaders, (CsrfName :> "attr"), ("X-Action" :> "attr") }

\* getHeaders(element): the CSRF token first, then one header per x-*
\* attribute that is not an engine attribute (here: x-action or none).
getHeaders(token, attributes) ==
    Layer(IF Truthy(token) THEN (CsrfName :> token.value) ELSE NoHeaders, attributes)

\* prepareRequestHeaders(element, defaultHeaders): a copy of the descriptor's
\* headers, the CSRF token written into it, the element's x-headers over both.
prepareRequestHeaders(token, xHeaders, defaultHeaders) ==
    Layer(Layer(defaultHeaders,
                IF Truthy(token) THEN (CsrfName :> token.value) ELSE NoHeaders),
          xHeaders)

OnlyHdr == UNCHANGED <<coreVars, debVars, domVars, inhVars, hookVars, actVars, sseVars>>

HdrInit ==
    /\ \E token \in CsrfTokens : \E xh \in ElementHeaders :
          hdr = [stage |-> "new", csrfToken |-> token, xHeaders |-> xh,
                 descriptor |-> NoHeaders, changes |-> 0, sent |-> NoHeaders]
    /\ CoreIdle
    /\ DebIdle
    /\ DomIdle
    /\ InhIdle
    /\ HookIdle
    /\ ActIdle
    /\ SseIdle

\* extractRequestParams: const headers = this.getHeaders(element).
ExtractHeaders(attributes) ==
    /\ hdr.stage = "new"
    /\ hdr' = [hdr EXCEPT !.stage = "descriptor",
                          !.descriptor = getHeaders(hdr.csrfToken, attributes)]
    /\ OnlyHdr

\* A beforeRequest hook or a middleware stage writes requestParams.headers[n].
ChangeHeader(n, v) ==
    /\ hdr.stage = "descriptor"
    /\ hdr.changes < MaxHeaderChanges
    /\ hdr' = [hdr EXCEPT !.descriptor = Layer(@, (n :> v)),
                          !.changes = @ + 1]
    /\ OnlyHdr

\* performRequest, in the innermost stage: the headers given to fetch.
SendHeaders ==
    /\ hdr.stage = "descriptor"
    /\ hdr' = [hdr EXCEPT !.stage = "sent",
                          !.sent = prepareRequestHeaders(hdr.csrfToken, hdr.xHeaders,
                                                         hdr.descriptor)]
    /\ OnlyHdr

HdrNext ==
    \/ \E attributes \in {NoHeaders, ("X-Action" :> "attr")} : ExtractHeaders(attributes)
    \/ \E n \in HeaderNames : \E v \in {"own", "other"} : ChangeHeader(n, v)
    \/ SendHeaders

SpecHeaders == HdrInit /\ [][HdrNext]_vars

\* C35 as stated: when the descriptor carries a value under the CSRF header
\* name and the element's x-headers do not name that header, the value sent
\* under that name is the descriptor's.
C35_DescriptorValueIsSent ==
    (/\ hdr.stage = "sent"
     /\ CsrfName \in DOMAIN hdr.descriptor
     /\ CsrfName \notin DOMAIN hdr.xHeaders) =>
        hdr.sent[CsrfName] = hdr.descriptor[CsrfName]

\* ------------------------------------------- the timers of performRequestCore

\* C36 as stated: the only timer that can be armed is the one of the attempt
\* whose fetch is pending; once an attempt has ended, by a response or by a
\* failure, its timer is disarmed, so no timer of attempt k is left to abort
\* a later attempt.
C36_TimerDisarmedWithItsAttempt ==
    armed \subseteq (IF pc = "fetch" THEN {attempts} ELSE {})

\* --------------------------------------- the response read by processResponse

\* C37 as stated: whenever processResponse has begun, this.lastResponse holds
\* a response, also when a stage has short-circuited the chain in the first
\* interaction of the engine.
C37_ResponseHeldAtReconciliation ==
    At("beforeUpdate") # {} => act.slot # "empty"

\* ------------------------------------------- interactions that overlap in time
\* The page of SpecDom with responses that differ in their text, so that the
\* text an interaction has read tells which response was its own.
RaceResponses ==
    { Response(<<Plain("r1", <<>>)>>, None, None, None),
      Response(<<Plain("r2", <<>>)>>, "b", "afterend", None),
      Response(<<Plain("r3", <<>>)>>, None, None, "stop") }

RaceNext ==
    \/ \E el \in DOMAIN dom : TriggerAction(el)
    \/ \E c \in DOMAIN dom : \E o \in dom[c].observing : Intersect(c, o)
    \/ \E i \in inflight : \E r \in RaceResponses : Respond(i, r)
    \/ \E i \in inflight : Settle(i)

SpecRace == DomInit /\ [][RaceNext]_vars

\* The response whose body is the given text.
OwnResponse(text) == CHOOSE r \in RaceResponses : r.text = text

\* This step is the reconciliation of an interaction whose text had arrived.
Reconciles == recon' # recon /\ \E i \in inflight \ inflight' : i.stage = "text"

\* C34: the response an interaction receives is stored in the one slot,
\* whatever the slot held; and a reconciliation takes the target override,
\* the swap override and the scroll termination from the response the slot
\* holds when it begins, which is the response stored last, while it swaps in
\* the text its own interaction has read.
C34_ReconciliationReadsSharedSlot ==
    /\ [][\A i \in inflight' \ inflight :
             i.stage = "text" => lastResponse' = OwnResponse(i.text)]_vars
    /\ [][Reconciles =>
             /\ recon'.response = lastResponse
             /\ \E i \in inflight \ inflight' : recon'.text = i.text
             /\ recon'.swaps[1].target =
                   FinalTarget(recon'.before, lastResponse.xTarget, recon'.targetElement)
             /\ recon'.swaps[1].option =
                   SwapOption(recon'.before, lastResponse.xSwap, recon'.element)
             /\ (/\ ~recon'.threw
                 /\ lastResponse.xInfiniteScroll = "stop"
                 /\ dom[recon'.element].kind = "scroll") => dom'[recon'.element].stopped]_vars

\* A's reconciliation has been made with B's response in the slot: its text
\* is that of one response, its target and swap option those that the headers
\* of another one dictate.
C34_Witness ==
    /\ Reconciled
    /\ recon.response # OwnResponse(recon.text)
    /\ recon.swaps[1].target #
          FinalTarget(recon.before, OwnResponse(recon.text).xTarget, recon.targetElement)
    /\ recon.swaps[1].option #
          SwapOption(recon.before, OwnResponse(recon.text).xSwap, recon.element)
    /\ recon.swaps[1].content = StripOob(recon.text)

\* ------------------------------------------------ the target of a replay

\* C33 as stated: the reconciliation of a navigation replay is made for the
\* node that has the recorded identifier, with the recorded swap option when
\* one was recorded and the response names none.
C33_ReplaySwapsIntoRecordedTarget ==
    [][\A i \in inflight \ inflight' :
          (i.kind = "pop" /\ i.stage = "text" /\ recon' # recon) =>
              /\ recon'.targetElement = GetElementById(dom, dom[i.target].id)
              /\ (i.swapOption # None /\ lastResponse.xSwap = None) =>
                    recon'.swaps[1].option = i.swapOption]_vars

\* --------------------------------------------------- the history entries
\* The page of SpecDom, where the button "a" has no x-push-state attribute
\* and the button inside "b" has x-push-state="false"; the entries the engine
\* pushes are the ones navigation comes back to.

\* getAttributeWithInheritance(element, 'x-push-state') on this page.
XPushState(d, el) == IF d[el].id = "a" THEN None ELSE "false"

\* A slip: every caller of processResponse pushes an entry.
PushesAlways(i) == TRUE

\* history.pushState is called by handleAction only.
Pushes(i) == i.kind = "action"

\* The entry handleAction pushes after processResponse has returned.
PushedEntry(d, i) ==
    HistoryState(TRUE, TRUE, d[i.target].id, "/u",
                 With(getAttributeWithInheritance(d, i.element, "swap"), LAMBDA own :
                      IF own # None THEN own ELSE defaultSwapOption))

\* The caller goes on after the body text has arrived, as in Settle, and
\* handleAction pushes its entry when processResponse has returned.
SettleAndPush(i) ==
    /\ SettleDom(i)
    /\ pushed' = IF /\ Pushes(i)
                    /\ recon' # recon
                    /\ ~recon'.threw
                    /\ ShouldPushState(XPushState(dom, i.element))
                 THEN Append(pushed, PushedEntry(dom, i))
                 ELSE pushed
    /\ UNCHANGED <<coreVars, debVars, inhVars, hookVars, sseVars, hdrVars,
                   act, middleware, shown>>

HistoryResponses ==
    { Response(<<Plain(None, <<>>)>>, None, None, None),
      Response(<<Plain(None, <<>>)>>, "root", None, None) }

HistoryNext ==
    \/ \E el \in DOMAIN dom : TriggerAction(el)
    \/ \E c \in DOMAIN dom : \E o \in dom[c].observing : Intersect(c, o)
    \/ \E h \in Range(pushed) \cup {HistoryState(FALSE, FALSE, None, None, None)} : PopState(h)
    \/ \E i \in inflight : \E r \in HistoryResponses : Respond(i, r)
    \/ \E i \in inflight : Fail(i)
    \/ \E i \in inflight : SettleAndPush(i)

SpecHistory == DomInit /\ [][HistoryNext]_vars

\* This step completes a triggered action with push-state enabled: its
\* reconciliation has returned.
ActionSucceeds ==
    \E i \in inflight \ inflight' :
        /\ i.kind = "action"
        /\ i.stage = "text"
        /\ recon' # recon
        /\ ~recon'.threw
        /\ XPushState(dom, i.element) # "false"

\* C39: a step pushes one history entry when it completes a triggered action
\* with push-state enabled, and no step of any other kind pushes or removes
\* one: not a popstate, not the request, failure or reconciliation of a
\* replay or of a scroll load, not a failed action.
C39_OnlySucceededActionsPush ==
    [][IF ActionSucceeds
       THEN Len(pushed') = Len(pushed) + 1 /\ SubSeq(pushed', 1, Len(pushed)) = pushed
       ELSE pushed' = pushed]_vars

\* Navigation has come back to the entry the engine pushed and its replay
\* has been reconciled; the history still holds that one entry.
C39_Witness ==
    /\ Len(pushed) = 1
    /\ popped # <<>>
    /\ popped[1] = pushed[1]
    /\ inflight = {}
    /\ Reconciled
    /\ Len(SelectSeq(hookLog, LAMBDA e : e = "afterSettle")) = 2

\* ----------------------------------------------------- server-push messages
\* A page with an action element and a server-push element; the messages
\* its EventSource delivers, while actions of the page go through the
\* request pipeline.
MessageMarkup ==
    << Elem("a", "action", None, None, None, <<>>),
       Elem("e", "sse", None, None, None, <<>>) >>

MessageDocument ==
    With(AddForest((Body :> NewNode(Elem(None, "body", None, None, None, <<>>), <<>>)),
                   MessageMarkup), LAMBDA parsed :
         scanForElements([parsed.dom EXCEPT ![Body].kids = parsed.roots], Body))

\* JSON.parse(event.data): { content, xTarget, xSwap }.
Messages ==
    { [content |-> <<Plain(None, <<>>)>>, xTarget |-> None, xSwap |-> None],
      [content |-> <<Elem(None, "action", "a", None, None, <<>>)>>, xTarget |-> "a",
       xSwap |-> "afterend"],
      [content |-> <<Plain(None, <<>>)>>, xTarget |-> "zz", xSwap |-> "outerHTML"] }

MessageInit ==
    /\ dom = MessageDocument
    /\ lastResponse = NoResponse
    /\ inflight = {}
    /\ recon = NoRecon
    /\ loads = <<>>
    /\ reloads = 0
    /\ requests = 0
    /\ hookLog = <<>>
    /\ popped = <<>>
    /\ lastSwap = NoSwap
    /\ CoreIdle
    /\ DebIdle
    /\ ExtIdle

\* document.querySelector(data.xTarget) || element
MessageTarget(d, element, data) ==
    With(GetElementById(d, data.xTarget), LAMBDA found :
         IF found # NoNode THEN found ELSE element)

\* A slip: the message is taken through performRequest.
handleSSEMessageThroughPipeline(element, data) ==
    /\ lastSwap.no < MaxDirectSwaps
    /\ dom[element].kind = "sse"
    /\ dom[element].sseInit
    /\ \E target \in {MessageTarget(dom, element, data)} :
       \E option \in {IF data.xSwap # None THEN data.xSwap ELSE defaultSwapOption} :
       \E r \in {performSwap(dom, target, data.content, option)} :
          /\ InDocument(dom, target)
          /\ dom' = IF r.threw THEN r.dom ELSE scanForElements(r.dom, Body)
          /\ lastSwap' = [no |-> lastSwap.no + 1, before |-> dom, target |-> target,
                          option |-> option, threw |-> r.threw]
    /\ hookLog' = hookLog \o <<"beforeRequest", "afterResponse">>
    /\ UNCHANGED <<lastResponse, inflight, recon, loads, reloads, requests, popped>>
    /\ OnlyDom

\* handleSSEMessage(event, element) for a message of the element's
\* EventSource: performSwap on the node data.xTarget names, else on the
\* element, with data.xSwap or the default option, then scanForElements() over
\* the document; a target out of the document is reported and nothing is done.
handleSSEMessage(element, data) ==
    /\ lastSwap.no < MaxDirectSwaps
    /\ dom[element].kind = "sse"
    /\ dom[element].sseInit
    /\ \E target \in {MessageTarget(dom, element, data)} :
       \E option \in {IF data.xSwap # None THEN data.xSwap ELSE defaultSwapOption} :
       \E r \in {performSwap(dom, target, data.content, option)} :
          /\ InDocument(dom, target)
          /\ dom' = IF r.threw THEN r.dom ELSE scanForElements(r.dom, Body)
          /\ lastSwap' = [no |-> lastSwap.no + 1, before |-> dom, target |-> target,
                          option |-> option, threw |-> r.threw]
    /\ UNCHANGED <<lastResponse, inflight, recon, loads, reloads, requests, hookLog, popped>>
    /\ OnlyDom

MessageNext ==
    \/ \E element \in DOMAIN dom : \E data \in Messages : handleSSEMessage(element, data)
    \/ \E el \in DOMAIN dom : TriggerAction(el)
    \/ \E i \in inflight : \E r \in HistoryResponses : Respond(i, r)
    \/ \E i \in inflight : Settle(i)

SpecMessage == MessageInit /\ [][MessageNext]_vars

\* This step handles a server-push message.
MessageHandled == lastSwap'.no = lastSwap.no + 1

\* C31: the step that handles a server-push message issues no request and
\* completes none, runs no hook and no stage, makes no network call, leaves
\* this.lastResponse, the reconciliation record and the history as they were;
\* the document it leaves is the one its swap and the scan of the document
\* give.
C31_MessageStaysOutOfPipeline ==
    [][MessageHandled =>
          /\ UNCHANGED <<lastResponse, inflight, requests, hookLog, recon, loads, reloads,
                         popped>>
          /\ UNCHANGED <<netCalls, hookTrace, hookRuns, middleware, pushed, act>>
          /\ \E element \in DOMAIN dom : \E data \in Messages :
             \E r \in {performSwap(dom, MessageTarget(dom, element, data), data.content,
                                   IF data.xSwap # None THEN data.xSwap
                                   ELSE defaultSwapOption)} :
                dom' = IF r.threw THEN r.dom ELSE scanForElements(r.dom, Body)]_vars

\* A message has been handled while a request of the page was under way and
\* a response of an earlier one was stored; the action element it brought in
\* has its listener.
C31_Witness ==
    /\ lastSwap.no > 0
    /\ ~lastSwap.threw
    /\ inflight # {}
    /\ lastResponse # NoResponse
    /\ \E n \in DOMAIN dom \ DOMAIN lastSwap.before :
          InDocument(dom, n) /\ dom[n].kind = "action" /\ dom[n].listeners = 1

\* ------------------------------- server-push elements of a swapped-in fragment
\* The element "x" is in the document; "y" is an element of the fragment that
\* performSwap parses from a response and scans before it inserts anything.

FragmentInit ==
    /\ sse = [inDocument  |-> [e \in SseElements |-> e = "x"],
              initialized |-> [e \in SseElements |-> FALSE],
              sources     |-> [e \in SseElements |-> <<>>],
              observers   |-> [e \in SseElements |-> 0],
              connections |-> {},
              mutated     |-> FALSE]
    /\ CoreIdle
    /\ DebIdle
    /\ DomIdle
    /\ InhIdle
    /\ HookIdle
    /\ ActIdle
    /\ HdrIdle

\* How performSwap places the fragment it has scanned:
\*   moved    - outerHTML, innerHTML on a target in the document: the
\*              fragment's own nodes go into the document;
\*   copied   - insertAdjacentHTML on a target in the document: the text is
\*              parsed again, the fragment's nodes stay out;
\*   detached - the target is itself out of the document (it was replaced
\*              while the request was under way): nothing under
\*              document.body changes.
Placements == {"moved", "copied", "detached"}

\* performSwap(targetElement, newContent, swapOption) with the element e in
\* its fragment: scanForElements(fragment) sets e up, then the switch.
SwapFragment(e, placement) ==
    /\ ~sse.inDocument[e]
    /\ sse.sources[e] = <<>>
    /\ \E s \in {setupSSEConnection(sse, e)} :
          sse' = CASE placement = "moved" ->
                        [s EXCEPT !.inDocument[e] = TRUE, !.mutated = TRUE]
                   [] placement = "copied" -> [s EXCEPT !.mutated = TRUE]
                   [] placement = "detached" -> s
    /\ OnlySse

FragmentNext ==
    \/ ScanDocument
    \/ \E e \in SseElements : \E placement \in Placements : SwapFragment(e, placement)
    \/ \E e \in SseElements : LeaveDocument(e)
    \/ \E e \in SseElements : EnterDocument(e)
    \/ DeliverMutations

\* The mutation records of a change under document.body are delivered to the
\* observers once the running script has ended.
SpecFragment == FragmentInit /\ [][FragmentNext]_vars /\ WF_vars(DeliverMutations)

\* The element has an EventSource that is not closed.
Open(e) == \E k \in DOMAIN sse.sources[e] : sse.sources[e][k] = "open"

OpenCount(e) == Cardinality({k \in DOMAIN sse.sources[e] : sse.sources[e][k] = "open"})

\* The marker and the connection map agree with the open connections.
MarkerMatchesMap ==
    \A e \in SseElements :
        /\ OpenCount(e) <= 1
        /\ sse.initialized[e] <=> e \in sse.connections
        /\ e \in sse.connections <=> Open(e)

\* C38 as stated: an element never has two open connections, it has the
\* marker exactly when the map holds its open connection, and an open
\* connection of an element that is out of the document is closed in the end
\* unless the element comes into the document.
C38_OpenConnectionsAreInDocument ==
    /\ []MarkerMatchesMap
    /\ \A e \in SseElements :
          (Open(e) /\ ~sse.inDocument[e]) ~> (~Open(e) \/ sse.inDocument[e])

====
